---- MODULE Spec2Model ----
(***************************************************************************)
(* Candidate-article storage protocol of news_aggregator_data_access_layer *)
(* (utils/s3.py, assets/news_assets.py) over an object store.              *)
(*                                                                         *)
(* The object store is modelled as a reliable map from (bucket, key) to an *)
(* object (body, metadata, tags): head/get/put answer from that map and    *)
(* raise no transient ClientError.                                         *)
(***************************************************************************)
EXTENDS Integers, Sequences, FiniteSets, TLC

VARIABLES
    s3,       \* the object store: [<<bucket, key>> -> [body, metadata, tags]]
    op,       \* name of the call just completed, "idle" between calls
    args,     \* arguments of the last call
    exc,      \* exception the last call raised, "None" when it returned
    ret,      \* value the last call returned
    pre,      \* the object store as it was when the last call started
    writes,   \* keys of the put_object / put_object_tagging requests of the last call, in order
    reads,    \* the requests of the last call that read the store, in order
    pc,       \* concurrent writers: position of each writer inside store_object_in_s3
    wargs,    \* concurrent writers: arguments of each writer's call
    putlog,   \* concurrent writers: writers in the order their put_object executed
    wpos,     \* concurrent writers: position of each writer in its batch of articles
    instance  \* the RawArticle instance the enrichment methods are called on

vars == <<s3, op, args, exc, ret, pre, writes, reads, pc, wargs, putlog, wpos, instance>>

seqvars == <<op, args, exc, ret, pre, writes, reads>>
racevars == <<pc, wargs, putlog, wpos>>

----------------------------------------------------------------------------
(* Bounds of the model *)

\* longest batch (articles, embeddings) a call is given
MaxBatch == 2

\* keys in one page of a list_objects_v2 answer
PageSize == 2

----------------------------------------------------------------------------
(* constants.py, config.py *)

ARTICLE_NOT_SOURCED_TAGS_FLAG == "False"
ARTICLE_SOURCED_TAGS_FLAG == "True"
NO_CATEGORY_STR == "n/a"
CANDIDATE_ARTICLES_S3_BUCKET == "news-aggregator-candidate-articles-dev"
ResultRefTypes_S3 == "s3"
ArticleType_NEWS == "news"

\* exceptions.py and the builtin exceptions the handlers raise
NoException == "None"
S3ObjectAlreadyExistsException == "S3ObjectAlreadyExistsException"
ValueError == "ValueError"
NotImplementedError == "NotImplementedError"
\* botocore.exceptions.ClientError: the store's answer for a key it does not hold
ClientError == "ClientError"
S3SuccessFileDoesNotExistException == "S3SuccessFileDoesNotExistException"
\* the exception of dict[key] for a key the dict does not hold
KeyError == "KeyError"

\* CandidateArticles.__init__
candidate_article_s3_extension == ".json"
success_marker_fn == "__SUCCESS__"
is_sourced_article_tag_key == "is_sourced_article"
aggregation_run_id_metadata_key == "aggregation_run_id"
aggregator_id_metadata_key == "aggregator_id"

----------------------------------------------------------------------------
(* Strings: characters, decimal numbers *)

Char(s, i) == SubSeq(s, i, i)

Digits == {"0", "1", "2", "3", "4", "5", "6", "7", "8", "9"}

DigitVal(c) ==
    CASE c = "0" -> 0 [] c = "1" -> 1 [] c = "2" -> 2 [] c = "3" -> 3
      [] c = "4" -> 4 [] c = "5" -> 5 [] c = "6" -> 6 [] c = "7" -> 7
      [] c = "8" -> 8 [] c = "9" -> 9

DigitChar(n) ==
    CASE n = 0 -> "0" [] n = 1 -> "1" [] n = 2 -> "2" [] n = 3 -> "3"
      [] n = 4 -> "4" [] n = 5 -> "5" [] n = 6 -> "6" [] n = 7 -> "7"
      [] n = 8 -> "8" [] n = 9 -> "9"

RECURSIVE ToInt(_)
\* int() of a string of decimal digits
ToInt(s) ==
    IF Len(s) = 0 THEN 0
    ELSE 10 * ToInt(SubSeq(s, 1, Len(s) - 1)) + DigitVal(Char(s, Len(s)))

RECURSIVE ToStr(_)
\* str() of a natural number
ToStr(n) ==
    IF n < 10 THEN DigitChar(n) ELSE ToStr(n \div 10) \o DigitChar(n % 10)

RECURSIVE ZeroPad(_, _)
\* a decimal string left-padded with zeros to the given width
ZeroPad(s, width) == IF Len(s) >= width THEN s ELSE ZeroPad("0" \o s, width)

AllDigits(s, from, to) == \A i \in from..to : Char(s, i) \in Digits

StartsWith(s, p) == Len(p) <= Len(s) /\ SubSeq(s, 1, Len(p)) = p

EndsWith(s, e) == Len(e) <= Len(s) /\ SubSeq(s, Len(s) - Len(e) + 1, Len(s)) = e

RECURSIVE SetToList(_)
\* list(a_set): the elements once each, in an order the caller cannot rely on
SetToList(S) ==
    IF S = {} THEN <<>>
    ELSE LET x == CHOOSE y \in S : TRUE IN <<x>> \o SetToList(S \ {x})

Range(f) == {f[i] : i \in DOMAIN f}

Min(a, b) == IF a <= b THEN a ELSE b

----------------------------------------------------------------------------
(* Dates: datetime.fromisoformat and strftime on the published-date strings *)

IsLeap(y) == (y % 4 = 0 /\ y % 100 # 0) \/ y % 400 = 0

DaysInMonth(y, m) ==
    IF m = 2 THEN (IF IsLeap(y) THEN 29 ELSE 28)
    ELSE IF m \in {4, 6, 9, 11} THEN 30 ELSE 31

\* DATE_PUBLISHED_ARTICLE_REGEX under re.match: "$" also matches just before
\* a newline that ends the string
MatchesDatePublishedRegex(s) ==
    LET t == IF Len(s) = 26 /\ Char(s, 26) = "\n" THEN SubSeq(s, 1, 25) ELSE s
    IN  /\ Len(t) = 25
        /\ AllDigits(t, 1, 4) /\ Char(t, 5) = "-"
        /\ AllDigits(t, 6, 7) /\ Char(t, 8) = "-"
        /\ AllDigits(t, 9, 10) /\ Char(t, 11) = "T"
        /\ AllDigits(t, 12, 13) /\ Char(t, 14) = ":"
        /\ AllDigits(t, 15, 16) /\ Char(t, 17) = ":"
        /\ AllDigits(t, 18, 19) /\ SubSeq(t, 20, 25) = "+00:00"

InvalidDate == [ok |-> FALSE, year |-> 0, month |-> 0, day |-> 0,
                hour |-> 0, minute |-> 0, second |-> 0]

\* datetime.fromisoformat on a string of the shape YYYY-MM-DDTHH:MM:SS+00:00;
\* ok = FALSE stands for the ValueError it raises
fromisoformat(s) ==
    IF ~ (Len(s) = 25 /\ MatchesDatePublishedRegex(s)) THEN InvalidDate
    ELSE LET y  == ToInt(SubSeq(s, 1, 4))
             mo == ToInt(SubSeq(s, 6, 7))
             d  == ToInt(SubSeq(s, 9, 10))
             h  == ToInt(SubSeq(s, 12, 13))
             mi == ToInt(SubSeq(s, 15, 16))
             se == ToInt(SubSeq(s, 18, 19))
         IN  IF /\ y >= 1 /\ mo \in 1..12 /\ d >= 1 /\ d <= DaysInMonth(y, mo)
                /\ h <= 23 /\ mi <= 59 /\ se <= 59
             THEN [ok |-> TRUE, year |-> y, month |-> mo, day |-> d,
                   hour |-> h, minute |-> mi, second |-> se]
             ELSE InvalidDate

\* dt.strftime(DATE_LEXICOGRAPHIC_STR_FORMAT), "%Y/%m/%d", for years of four
\* digits (for a year below 1000 the C library decides whether %Y is padded)
dt_to_lexicographic_date_s3_prefix(dt) ==
    ZeroPad(ToStr(dt.year), 4) \o "/" \o ZeroPad(ToStr(dt.month), 2)
        \o "/" \o ZeroPad(ToStr(dt.day), 2)

\* dt.strftime(DT_LEXICOGRAPHIC_STR_FORMAT), "%Y/%m/%d/%H/%M/%S/%f"
dt_to_lexicographic_s3_prefix(dt) ==
    dt_to_lexicographic_date_s3_prefix(dt)
        \o "/" \o ZeroPad(ToStr(dt.hour), 2) \o "/" \o ZeroPad(ToStr(dt.minute), 2)
        \o "/" \o ZeroPad(ToStr(dt.second), 2) \o "/" \o ZeroPad(ToStr(dt.microsecond), 6)

----------------------------------------------------------------------------
(* JSON bodies *)

\* a Python dict with no entry: the function with the empty domain
EmptyDict == <<>>

RECURSIVE JsonEscape_QuoteOnly(_)
\* an escaping that leaves the backslash as it is
JsonEscape_QuoteOnly(s) ==
    IF Len(s) = 0 THEN ""
    ELSE (IF Char(s, 1) = "\"" THEN "\\\"" ELSE Char(s, 1)) \o JsonEscape_QuoteOnly(Tail(s))

RECURSIVE JsonEscape(_)
\* json.dumps of the characters of a string: quote and backslash are escaped
JsonEscape(s) ==
    IF Len(s) = 0 THEN ""
    ELSE LET c == Char(s, 1)
         IN  (IF c = "\"" THEN "\\\"" ELSE IF c = "\\" THEN "\\\\" ELSE c)
                 \o JsonEscape(Tail(s))

JsonString(s) == "\"" \o JsonEscape(s) \o "\""

JsonField(name, value) == JsonString(name) \o ": " \o value

\* repr of a float held in tenths: 15 is 1.5
JsonFloat(tenths) == ToStr(tenths \div 10) \o "." \o ToStr(tenths % 10)

RECURSIVE JsonFloatList(_)
JsonFloatList(xs) ==
    IF Len(xs) = 0 THEN ""
    ELSE JsonFloat(Head(xs))
             \o (IF Len(xs) > 1 THEN ", " ELSE "") \o JsonFloatList(Tail(xs))

\* RawArticle.json(): every field, in declaration order
RawArticle_json(a) ==
    "{" \o JsonField("article_id", JsonString(a.article_id))
        \o ", " \o JsonField("aggregator_id", JsonString(a.aggregator_id))
        \o ", " \o JsonField("dt_published", JsonString(a.dt_published))
        \o ", " \o JsonField("aggregation_index", ToStr(a.aggregation_index))
        \o ", " \o JsonField("topic_id", JsonString(a.topic_id))
        \o ", " \o JsonField("topic", JsonString(a.topic))
        \o ", " \o JsonField("discovered_topic", JsonString(a.discovered_topic))
        \o ", " \o JsonField("category", JsonString(a.category))
        \o ", " \o JsonField("title", JsonString(a.title))
        \o ", " \o JsonField("url", JsonString(a.url))
        \o ", " \o JsonField("author", JsonString(a.author))
        \o ", " \o JsonField("article_full_text", JsonString(a.article_full_text))
        \o ", " \o JsonField("article_text_snippet", JsonString(a.article_text_snippet))
        \o ", " \o JsonField("article_text_description", JsonString(a.article_text_description))
        \o ", " \o JsonField("article_data", JsonString(a.article_data))
        \o ", " \o JsonField("sorting", JsonString(a.sorting))
        \o ", " \o JsonField("article_type", JsonString(a.article_type))
        \o ", " \o JsonField("provider_domain", JsonString(a.provider_domain))
        \o ", " \o JsonField("article_processed_data", JsonString(a.article_processed_data))
        \o "}"

\* RawArticleEmbedding.json()
RawArticleEmbedding_json(e) ==
    "{" \o JsonField("article_id", JsonString(e.article_id))
        \o ", " \o JsonField("embedding_type", JsonString(e.embedding_type))
        \o ", " \o JsonField("embedding_model_name", JsonString(e.embedding_model_name))
        \o ", " \o JsonField("embedding", "[" \o JsonFloatList(e.embedding) \o "]")
        \o "}"

RECURSIVE JsonReadString(_, _)
\* json.loads of a string literal whose characters start at position i (after
\* the opening quote): its value and the position after the closing quote
JsonReadString(s, i) ==
    LET c == Char(s, i)
    IN  IF c = "\"" THEN [value |-> "", next |-> i + 1]
        ELSE IF c = "\\"
             THEN LET r == JsonReadString(s, i + 2)
                  IN  [value |-> Char(s, i + 1) \o r.value, next |-> r.next]
        ELSE LET r == JsonReadString(s, i + 1)
             IN  [value |-> c \o r.value, next |-> r.next]

RECURSIVE JsonReadDigits(_, _)
JsonReadDigits(s, i) ==
    IF i <= Len(s) /\ Char(s, i) \in Digits
    THEN LET r == JsonReadDigits(s, i + 1)
         IN  [value |-> Char(s, i) \o r.value, next |-> r.next]
    ELSE [value |-> "", next |-> i]

RECURSIVE JsonReadMembers(_, _)
\* the members of an object from position i on, up to the closing brace;
\* a member's value is a string literal or a natural number
JsonReadMembers(s, i) ==
    IF Char(s, i) = "}" THEN EmptyDict
    ELSE LET name == JsonReadString(s, i + 1)
             at == name.next + 2
             digits == JsonReadDigits(s, at)
             value == IF Char(s, at) = "\"" THEN JsonReadString(s, at + 1)
                      ELSE [value |-> ToInt(digits.value), next |-> digits.next]
             rest == IF Char(s, value.next) = "," THEN value.next + 2 ELSE value.next
         IN  (name.value :> value.value) @@ JsonReadMembers(s, rest)

\* json.loads of an object of strings and numbers
json_loads(s) == JsonReadMembers(s, 2)

----------------------------------------------------------------------------
(* The object store: head_object, put_object, get_object_tagging, put_object_tagging *)

\* urllib.parse.quote_plus on the characters the tag keys and values use:
\* letters, digits and "_.-~" pass, a space becomes "+", the rest is %XX
QuoteChar(c) ==
    CASE c = " " -> "+"
      [] c = "&" -> "%26"
      [] c = "=" -> "%3D"
      [] c = "+" -> "%2B"
      [] c = "%" -> "%25"
      [] c = "/" -> "%2F"
      [] OTHER -> c

RECURSIVE quote_plus(_)
quote_plus(s) ==
    IF Len(s) = 0 THEN "" ELSE QuoteChar(Char(s, 1)) \o quote_plus(Tail(s))

RECURSIVE UrlEncodeItems(_, _)
UrlEncodeItems(d, keys) ==
    IF keys = {} THEN ""
    ELSE LET k == CHOOSE x \in keys : TRUE
             rest == keys \ {k}
         IN  quote_plus(k) \o "=" \o quote_plus(d[k])
                 \o (IF rest = {} THEN "" ELSE "&" \o UrlEncodeItems(d, rest))

\* urllib.parse.urlencode(dict): "k1=v1&k2=v2", each side quote_plus'ed
urlencode(d) == UrlEncodeItems(d, DOMAIN d)

UnquoteCode(code) ==
    CASE code = "%26" -> "&"
      [] code = "%3D" -> "="
      [] code = "%2B" -> "+"
      [] code = "%25" -> "%"
      [] code = "%2F" -> "/"
      [] OTHER -> code

RECURSIVE unquote_plus(_)
\* the store's decoding of one side of a Tagging pair
unquote_plus(s) ==
    IF Len(s) = 0 THEN ""
    ELSE IF Char(s, 1) = "+" THEN " " \o unquote_plus(Tail(s))
    ELSE IF Char(s, 1) = "%" /\ Len(s) >= 3
         THEN UnquoteCode(SubSeq(s, 1, 3)) \o unquote_plus(SubSeq(s, 4, Len(s)))
    ELSE Char(s, 1) \o unquote_plus(Tail(s))

RECURSIVE IndexOf(_, _, _)
\* position of the first character c of s at or after i, 0 when there is none
IndexOf(s, c, i) ==
    IF i > Len(s) THEN 0 ELSE IF Char(s, i) = c THEN i ELSE IndexOf(s, c, i + 1)

RECURSIVE ParseTagging(_)
\* the store's reading of the Tagging argument of put_object (a URL query string)
ParseTagging(q) ==
    IF Len(q) = 0 THEN EmptyDict
    ELSE LET amp  == IndexOf(q, "&", 1)
             pair == IF amp = 0 THEN q ELSE SubSeq(q, 1, amp - 1)
             rest == IF amp = 0 THEN "" ELSE SubSeq(q, amp + 1, Len(q))
             eq   == IndexOf(pair, "=", 1)
             k    == unquote_plus(IF eq = 0 THEN pair ELSE SubSeq(pair, 1, eq - 1))
             v    == unquote_plus(IF eq = 0 THEN "" ELSE SubSeq(pair, eq + 1, Len(pair)))
         IN  (k :> v) @@ ParseTagging(rest)

\* tag dicts the callers pass: none, the tag of a fresh article, and tags whose
\* characters need quoting
TagDictInputs ==
    {EmptyDict,
     (is_sourced_article_tag_key :> ARTICLE_NOT_SOURCED_TAGS_FLAG),
     (is_sourced_article_tag_key :> ARTICLE_SOURCED_TAGS_FLAG) @@ ("other" :> "x"),
     ("note" :> "a b&c=d/e+f%")}

\* urlencode and ParseTagging tabulated over the tag dicts in use
UrlEncodeTable == [d \in TagDictInputs |-> urlencode(d)]

ParseTaggingTable == [q \in {UrlEncodeTable[d] : d \in TagDictInputs} |-> ParseTagging(q)]

\* s3_client.head_object succeeds (no 404)
HeadObject(store, bucket, key) == <<bucket, key>> \in DOMAIN store

\* put_object that merges the new metadata into the metadata already there
PutObject_MergesMetadata(store, bucket, key, body, metadata, tagging) ==
    (<<bucket, key>> :> [body |-> body,
                         metadata |-> IF <<bucket, key>> \in DOMAIN store
                                      THEN metadata @@ store[<<bucket, key>>].metadata
                                      ELSE metadata,
                         tags |-> ParseTaggingTable[tagging]]) @@ store

\* s3_client.put_object: the object at the key is replaced as a whole
PutObject(store, bucket, key, body, metadata, tagging) ==
    (<<bucket, key>> :> [body |-> body, metadata |-> metadata,
                         tags |-> ParseTaggingTable[tagging]]) @@ store

\* utils/s3.py create_tag_set_for_object: a dict as a list of Key/Value entries
create_tag_set_for_object(object_tags) ==
    LET keys == SetToList(DOMAIN object_tags)
    IN  [i \in DOMAIN keys |-> [Key |-> keys[i], Value |-> object_tags[keys[i]]]]

RECURSIVE create_tagging_map_for_object(_)
\* utils/s3.py create_tagging_map_for_object: a list of Key/Value entries as
\* a dict, a later entry of a key replacing an earlier one
create_tagging_map_for_object(object_tags) ==
    IF Len(object_tags) = 0 THEN EmptyDict
    ELSE LET last == object_tags[Len(object_tags)]
         IN  (last.Key :> last.Value)
                 @@ create_tagging_map_for_object(SubSeq(object_tags, 1, Len(object_tags) - 1))

\* s3_client.put_object_tagging: the tag set of an existing object is replaced
PutObjectTagging(store, bucket, key, tagset) ==
    [store EXCEPT ![<<bucket, key>>].tags = create_tagging_map_for_object(tagset)]

\* s3_client.get_object_tagging: the TagSet of the response
GetObjectTagging(store, bucket, key) ==
    create_tag_set_for_object(store[<<bucket, key>>].tags)

\* utils/s3.py object_exists
object_exists(store, bucket, key) == HeadObject(store, bucket, key)

\* utils/s3.py get_object_tags (the TagSet list read back as a dict)
get_object_tags(store, bucket, key) ==
    create_tagging_map_for_object(GetObjectTagging(store, bucket, key))

\* update_object_tags that adds the given tags to the tags already there
update_object_tags_Merges(store, bucket, key, object_tags_to_update) ==
    PutObjectTagging(store, bucket, key,
        create_tag_set_for_object(object_tags_to_update @@ store[<<bucket, key>>].tags))

\* utils/s3.py update_object_tags
update_object_tags(store, bucket, key, object_tags_to_update) ==
    PutObjectTagging(store, bucket, key, create_tag_set_for_object(object_tags_to_update))

\* utils/s3.py update_object_tags as its caller sees it: put_object_tagging
\* answers with a ClientError for a key the bucket does not hold
UpdateObjectTagsResult(store, bucket, key, object_tags_to_update) ==
    IF ~ HeadObject(store, bucket, key)
    THEN [s3 |-> store, exc |-> ClientError, ret |-> <<>>, writes |-> <<>>,
          reads |-> <<>>]
    ELSE [s3 |-> update_object_tags(store, bucket, key, object_tags_to_update),
          exc |-> NoException, ret |-> <<>>, writes |-> <<key>>, reads |-> <<>>]

\* the head_object request of store_object_in_s3: made only when overwriting
\* is not allowed
ExistenceCheck(key, overwrite_allowed) ==
    IF overwrite_allowed THEN <<>> ELSE <<<<"head_object", key>>>>

\* store_object_in_s3 without the existence check
store_object_in_s3_Unchecked(store, bucket, key, body, object_tags, object_metadata, overwrite_allowed) ==
    [s3 |-> PutObject(store, bucket, key, body, object_metadata, UrlEncodeTable[object_tags]),
     exc |-> NoException,
     writes |-> <<key>>, reads |-> <<>>]

\* store_object_in_s3 whose put_object leaves out Metadata
store_object_in_s3_DropsMetadata(store, bucket, key, body, object_tags, object_metadata, overwrite_allowed) ==
    IF ~ overwrite_allowed /\ object_exists(store, bucket, key)
    THEN [s3 |-> store, exc |-> S3ObjectAlreadyExistsException, writes |-> <<>>,
          reads |-> ExistenceCheck(key, overwrite_allowed)]
    ELSE [s3 |-> PutObject(store, bucket, key, body, EmptyDict, UrlEncodeTable[object_tags]),
          exc |-> NoException,
          writes |-> <<key>>, reads |-> ExistenceCheck(key, overwrite_allowed)]

\* utils/s3.py store_object_in_s3: the store it leaves, the exception it
\* raises ("None" when it returns) and the keys it put
store_object_in_s3(store, bucket, key, body, object_tags, object_metadata, overwrite_allowed) ==
    IF ~ overwrite_allowed /\ object_exists(store, bucket, key)
    THEN [s3 |-> store, exc |-> S3ObjectAlreadyExistsException, writes |-> <<>>,
          reads |-> ExistenceCheck(key, overwrite_allowed)]
    ELSE [s3 |-> PutObject(store, bucket, key, body, object_metadata, UrlEncodeTable[object_tags]),
          exc |-> NoException,
          writes |-> <<key>>, reads |-> ExistenceCheck(key, overwrite_allowed)]

----------------------------------------------------------------------------
(* utils/s3.py: listing a prefix, reading objects, the success marker *)

\* the characters of keys in the byte order of their codes
AsciiOrder == " %&+-./0123456789=ABCDEFGHIJKLMNOPQRSTUVWXYZ_abcdefghijklmnopqrstuvwxyz"

RECURSIVE KeyLess(_, _)
\* a sorts before b in the order list_objects_v2 returns keys in
KeyLess(a, b) ==
    IF Len(b) = 0 THEN FALSE
    ELSE IF Len(a) = 0 THEN TRUE
    ELSE IF Char(a, 1) = Char(b, 1) THEN KeyLess(Tail(a), Tail(b))
    ELSE IndexOf(AsciiOrder, Char(a, 1), 1) < IndexOf(AsciiOrder, Char(b, 1), 1)

RECURSIVE SortKeys(_)
SortKeys(keys) ==
    IF keys = {} THEN <<>>
    ELSE LET first == CHOOSE k \in keys : \A other \in keys \ {k} : KeyLess(k, other)
         IN  <<first>> \o SortKeys(keys \ {first})

\* the keys of the bucket that start with the prefix, in ascending order
KeysWithPrefix(store, bucket, prefix) ==
    SortKeys({k[2] : k \in {x \in DOMAIN store : x[1] = bucket /\ StartsWith(x[2], prefix)}})

RECURSIVE Pages(_)
\* a sorted key list cut into the pages the paginator yields
Pages(keys) ==
    IF Len(keys) = 0 THEN <<>>
    ELSE IF Len(keys) <= PageSize THEN <<[Contents |-> keys]>>
    ELSE <<[Contents |-> SubSeq(keys, 1, PageSize)]>>
             \o Pages(SubSeq(keys, PageSize + 1, Len(keys)))

\* s3_client.get_paginator("list_objects_v2").paginate(Bucket, Prefix)
Paginate(store, bucket, prefix) == Pages(KeysWithPrefix(store, bucket, prefix))

\* utils/s3.py get_object: body, metadata and tags of an object
get_object(store, bucket, key) ==
    <<store[<<bucket, key>>].body, store[<<bucket, key>>].metadata,
      get_object_tags(store, bucket, key)>>

\* the success_marker_fn a reader uses when it names none
DefaultSuccessMarkerFn == "_success"

\* utils/s3.py success_file_exists_at_prefix
success_file_exists_at_prefix(store, bucket, prefix, marker_fn) ==
    object_exists(store, bucket, prefix \o "/" \o marker_fn)

RECURSIVE ReadContents(_, _, _, _)
\* the inner loop of read_objects_from_prefix_with_extension over one page
ReadContents(store, bucket, contents, file_extension) ==
    IF Len(contents) = 0 THEN <<>>
    ELSE (IF EndsWith(Head(contents), file_extension)
          THEN <<<<Head(contents)>> \o get_object(store, bucket, Head(contents))>>
          ELSE <<>>)
             \o ReadContents(store, bucket, Tail(contents), file_extension)

RECURSIVE ReadPages(_, _, _, _)
\* the outer loop of read_objects_from_prefix_with_extension over the pages
ReadPages(store, bucket, pages, file_extension) ==
    IF Len(pages) = 0 THEN <<>>
    ELSE ReadContents(store, bucket, Head(pages).Contents, file_extension)
             \o ReadPages(store, bucket, Tail(pages), file_extension)

RECURSIVE ContentsRequests(_, _)
\* the requests of the inner loop: get_object reads the object, then its tags
ContentsRequests(contents, file_extension) ==
    IF Len(contents) = 0 THEN <<>>
    ELSE (IF EndsWith(Head(contents), file_extension)
          THEN <<<<"get_object", Head(contents)>>, <<"get_object_tagging", Head(contents)>>>>
          ELSE <<>>)
             \o ContentsRequests(Tail(contents), file_extension)

RECURSIVE PagesRequests(_, _, _)
\* the requests of the outer loop: one list_objects_v2 for each page
PagesRequests(prefix, pages, file_extension) ==
    IF Len(pages) = 0 THEN <<>>
    ELSE <<<<"list_objects_v2", prefix>>>>
             \o ContentsRequests(Head(pages).Contents, file_extension)
             \o PagesRequests(prefix, Tail(pages), file_extension)

\* the requests that read the store: the marker check when it is asked for,
\* then the listing (one request also when nothing is listed) and the reads
ReadRequests(prefix, pages, file_extension, marker_fn, check_success_file) ==
    (IF check_success_file THEN <<<<"head_object", prefix \o "/" \o marker_fn>>>> ELSE <<>>)
        \o (IF pages = <<>> THEN <<<<"list_objects_v2", prefix>>>>
            ELSE PagesRequests(prefix, pages, file_extension))

\* the loops of read_objects_from_prefix_with_extension over the pages listed
ReadListed(store, bucket, prefix, pages, file_extension, marker_fn, check_success_file) ==
    [s3 |-> store, exc |-> NoException, writes |-> <<>>,
     reads |-> ReadRequests(prefix, pages, file_extension, marker_fn, check_success_file),
     ret |-> ReadPages(store, bucket, pages, file_extension)]

\* read_objects_from_prefix_with_extension that never looks for the marker
read_objects_from_prefix_with_extension_NoCheck(store, bucket, prefix, file_extension, marker_fn, check_success_file) ==
    ReadListed(store, bucket, prefix, Paginate(store, bucket, prefix), file_extension,
               marker_fn, FALSE)

\* read_objects_from_prefix_with_extension that returns every listed object
read_objects_from_prefix_with_extension_AnyExtension(store, bucket, prefix, file_extension, marker_fn, check_success_file) ==
    IF check_success_file /\ ~ success_file_exists_at_prefix(store, bucket, prefix, marker_fn)
    THEN [s3 |-> store, exc |-> S3SuccessFileDoesNotExistException, ret |-> <<>>,
          writes |-> <<>>, reads |-> <<<<"head_object", prefix \o "/" \o marker_fn>>>>]
    ELSE ReadListed(store, bucket, prefix, Paginate(store, bucket, prefix), "",
                    marker_fn, check_success_file)

\* utils/s3.py read_objects_from_prefix_with_extension
read_objects_from_prefix_with_extension(store, bucket, prefix, file_extension, marker_fn, check_success_file) ==
    IF check_success_file /\ ~ success_file_exists_at_prefix(store, bucket, prefix, marker_fn)
    THEN [s3 |-> store, exc |-> S3SuccessFileDoesNotExistException, ret |-> <<>>,
          writes |-> <<>>, reads |-> <<<<"head_object", prefix \o "/" \o marker_fn>>>>]
    ELSE ReadListed(store, bucket, prefix, Paginate(store, bucket, prefix), file_extension,
                    marker_fn, check_success_file)

\* store_success_file with overwrite_allowed left at its default
store_success_file_NoOverwrite(store, bucket, prefix, marker_fn, object_metadata, now) ==
    store_object_in_s3(store, bucket, prefix \o "/" \o marker_fn,
                       dt_to_lexicographic_s3_prefix(now),
                       EmptyDict, object_metadata, FALSE)

\* utils/s3.py store_success_file, now standing for datetime.now(timezone.utc)
store_success_file(store, bucket, prefix, marker_fn, object_metadata, now) ==
    store_object_in_s3(store, bucket, prefix \o "/" \o marker_fn,
                       dt_to_lexicographic_s3_prefix(now),
                       EmptyDict, object_metadata, TRUE)

\* utils/s3.py get_object as its caller sees it: s3_client.get_object answers
\* with a ClientError (NoSuchKey) for a key the bucket does not hold
GetObjectResult(store, bucket, key) ==
    IF ~ HeadObject(store, bucket, key)
    THEN [s3 |-> store, exc |-> ClientError, ret |-> <<>>, writes |-> <<>>,
          reads |-> <<<<"get_object", key>>>>]
    ELSE [s3 |-> store, exc |-> NoException, ret |-> get_object(store, bucket, key),
          writes |-> <<>>,
          reads |-> <<<<"get_object", key>>, <<"get_object_tagging", key>>>>]

\* utils/s3.py get_success_file
get_success_file(store, bucket, prefix, marker_fn) ==
    GetObjectResult(store, bucket, prefix \o "/" \o marker_fn)

----------------------------------------------------------------------------
(* assets/news_assets.py: the domain model *)

\* RawArticle(...) with the optional fields left at their defaults
RawArticle(article_id, aggregator_id, dt_published, topic_id, url) ==
    [class |-> "RawArticle",
     article_id |-> article_id, aggregator_id |-> aggregator_id,
     dt_published |-> dt_published, aggregation_index |-> 0,
     topic_id |-> topic_id, topic |-> "topic", discovered_topic |-> "",
     category |-> NO_CATEGORY_STR, title |-> "title", url |-> url, author |-> "",
     article_full_text |-> "", article_text_snippet |-> "",
     article_text_description |-> "", article_data |-> "data",
     sorting |-> "Date", article_type |-> ArticleType_NEWS,
     provider_domain |-> "", article_processed_data |-> ""]

RawArticleEmbedding(article_id, embedding) ==
    [class |-> "RawArticleEmbedding",
     article_id |-> article_id, embedding_type |-> "title",
     embedding_model_name |-> "ada-2", embedding |-> embedding]

\* isinstance(x, RawArticle), isinstance(x, RawArticleEmbedding)
IsRawArticle(x) == x.class = "RawArticle"
IsRawArticleEmbedding(x) == x.class = "RawArticleEmbedding"

----------------------------------------------------------------------------
(* Inputs the calls are given *)

TopicId == "t1"

\* topic ids of the repositories in use
TopicIds == {TopicId}

\* two times of one day, the next day (another month), and a string the
\* published-date pattern accepts that is no calendar date
DtJan31Late == "2023-01-31T23:59:59+00:00"
DtJan31Early == "2023-01-31T08:00:00+00:00"
DtFeb01 == "2023-02-01T00:00:00+00:00"
DtFeb30 == "2023-02-30T12:00:00+00:00"

Art1 == RawArticle("a1", "bingnews", DtJan31Late, TopicId, "u1")
Art2 == RawArticle("a1", "newsapi.org", DtJan31Early, TopicId, "u2")
Art3 == RawArticle("a2", "bingnews", DtJan31Late, TopicId, "u1")
Art4 == RawArticle("a1", "newsapi.org", DtFeb01, TopicId, "u2")
Art5 == RawArticle("a2", "bingnews", DtFeb30, TopicId, "u3")

\* the articles a caller can construct: dt_published passes the field's regex
RawArticles ==
    {a \in {Art1, Art2, Art3, Art4, Art5} : MatchesDatePublishedRegex(a.dt_published)}

\* an article of a topic no repository in use is of
ArtOtherTopic == RawArticle("a3", "bingnews", DtJan31Late, "t2", "u4")

\* the articles the conversions are tabulated over
TabledArticles == RawArticles \cup {ArtOtherTopic}

\* embeddings for both article ids, two vectors each
RawArticleEmbeddings ==
    {RawArticleEmbedding(id, e) : id \in {"a1", "a2"}, e \in {<<1, 25>>, <<3>>}}

RunIds == {"r1", "r2"}

Batches(S) == UNION {[1..n -> S] : n \in 0..MaxBatch}

ArticleBatches == Batches(RawArticles)

----------------------------------------------------------------------------
(* assets/news_assets.py: CandidateArticles, key layout *)

_get_raw_candidates_s3_object_prefix(topic_id, article_published_date) ==
    "raw_candidate_articles/" \o topic_id \o "/" \o article_published_date

_get_raw_candidate_embeddings_s3_object_prefix(topic_id, article_published_date) ==
    "raw_candidate_article_embeddings/" \o topic_id \o "/" \o article_published_date

\* the article key without the extension
_get_raw_article_s3_object_key_NoExtension(topic_id, article) ==
    _get_raw_candidates_s3_object_prefix(topic_id,
        dt_to_lexicographic_date_s3_prefix(fromisoformat(article.dt_published)))
      \o "/" \o article.article_id

\* an article key made of the prefix alone: one key for a day's articles
_get_raw_article_s3_object_key_DateOnly(topic_id, article) ==
    _get_raw_candidates_s3_object_prefix(topic_id,
        dt_to_lexicographic_date_s3_prefix(fromisoformat(article.dt_published)))
      \o "/" \o "article" \o candidate_article_s3_extension

\* defined when datetime.fromisoformat(article.dt_published) does not raise
_get_raw_article_s3_object_key(topic_id, article) ==
    _get_raw_candidates_s3_object_prefix(topic_id,
        dt_to_lexicographic_date_s3_prefix(fromisoformat(article.dt_published)))
      \o "/" \o article.article_id \o candidate_article_s3_extension

\* defined when datetime.fromisoformat(article.dt_published) does not raise
_get_raw_article_embedding_s3_object_key(topic_id, article) ==
    _get_raw_candidate_embeddings_s3_object_prefix(topic_id,
        dt_to_lexicographic_date_s3_prefix(fromisoformat(article.dt_published)))
      \o "/" \o article.article_id \o candidate_article_s3_extension

\* the conversions tabulated over the articles in use; Key is "" where
\* fromisoformat raises
DateTable == [a \in TabledArticles |-> fromisoformat(a.dt_published)]

ArticleKeyTable ==
    [t \in TopicIds, a \in TabledArticles |->
        IF DateTable[a].ok THEN _get_raw_article_s3_object_key(t, a) ELSE ""]

ArticlePrefixTable ==
    [t \in TopicIds, a \in TabledArticles |->
        IF DateTable[a].ok
        THEN _get_raw_candidates_s3_object_prefix(t,
                 dt_to_lexicographic_date_s3_prefix(DateTable[a]))
        ELSE ""]

EmbeddingKeyTable ==
    [t \in TopicIds, a \in TabledArticles |->
        IF DateTable[a].ok THEN _get_raw_article_embedding_s3_object_key(t, a) ELSE ""]

EmbeddingPrefixTable ==
    [t \in TopicIds, a \in TabledArticles |->
        IF DateTable[a].ok
        THEN _get_raw_candidate_embeddings_s3_object_prefix(t,
                 dt_to_lexicographic_date_s3_prefix(DateTable[a]))
        ELSE ""]

ArticleJsonTable == [a \in TabledArticles |-> RawArticle_json(a)]

EmbeddingJsonTable == [e \in RawArticleEmbeddings |-> RawArticleEmbedding_json(e)]

----------------------------------------------------------------------------
(* assets/news_assets.py: CandidateArticles.store_articles *)

\* metadata that records the run id under both keys
ArticleMetadata_RunIdTwice(aggregation_run_id, article) ==
    (aggregation_run_id_metadata_key :> aggregation_run_id)
        @@ (aggregator_id_metadata_key :> aggregation_run_id)

\* metadata of a stored article
ArticleMetadata(aggregation_run_id, article) ==
    (aggregation_run_id_metadata_key :> aggregation_run_id)
        @@ (aggregator_id_metadata_key :> article.aggregator_id)

\* no tag on a freshly stored article
ArticleTags_Empty == EmptyDict

\* tags of a freshly stored article
ArticleTags == (is_sourced_article_tag_key :> ARTICLE_NOT_SOURCED_TAGS_FLAG)

\* prefixes that keeps only the prefix of the latest article
AddPrefix_KeepsLatest(prefixes, prefix) == {prefix}

\* prefixes.add(prefix)
AddPrefix(prefixes, prefix) == prefixes \cup {prefix}

\* the store call for an article with overwrite allowed
StoreArticle_Overwrites(store, topic_id, aggregation_run_id, article) ==
    store_object_in_s3(store, CANDIDATE_ARTICLES_S3_BUCKET,
                       ArticleKeyTable[topic_id, article],
                       ArticleJsonTable[article],
                       ArticleTags,
                       ArticleMetadata(aggregation_run_id, article),
                       TRUE)

\* one iteration of the loop over the articles: the store call for article i
StoreArticle(store, topic_id, aggregation_run_id, article) ==
    store_object_in_s3(store, CANDIDATE_ARTICLES_S3_BUCKET,
                       ArticleKeyTable[topic_id, article],
                       ArticleJsonTable[article],
                       ArticleTags,
                       ArticleMetadata(aggregation_run_id, article),
                       FALSE)

\* the requests a call has made so far: none
NoRequests == [writes |-> <<>>, reads |-> <<>>]

\* the requests made so far, and those of one more call of the adapter
Requests(done, r) == [writes |-> done.writes \o r.writes, reads |-> done.reads \o r.reads]

RECURSIVE StoreArticlesLoop(_, _, _, _, _, _, _)
\* the loop of _store_articles_in_s3 from article i on
StoreArticlesLoop(store, topic_id, aggregation_run_id, articles, i, prefixes, done) ==
    IF i > Len(articles)
    THEN [s3 |-> store, exc |-> NoException,
          ret |-> <<CANDIDATE_ARTICLES_S3_BUCKET, SetToList(prefixes)>>] @@ done
    ELSE LET article == articles[i]
             date_published == DateTable[article]
         IN  IF ~ date_published.ok
             THEN [s3 |-> store, exc |-> ValueError, ret |-> <<>>] @@ done
             ELSE LET prefix == ArticlePrefixTable[topic_id, article]
                      r == StoreArticle(store, topic_id, aggregation_run_id, article)
                  IN  IF r.exc # NoException
                      THEN [s3 |-> r.s3, exc |-> r.exc, ret |-> <<>>] @@ Requests(done, r)
                      ELSE StoreArticlesLoop(r.s3, topic_id, aggregation_run_id, articles,
                                             i + 1, AddPrefix(prefixes, prefix),
                                             Requests(done, r))

\* an exception raised before any request to the store
Raised(store, e) == [s3 |-> store, exc |-> e, ret |-> <<>>] @@ NoRequests

\* _store_articles_in_s3 that looks at aggregation_run_id after the loop
_store_articles_in_s3_LateRunIdCheck(store, topic_id, s3_client, aggregation_run_id, articles) ==
    IF ~ s3_client THEN Raised(store, ValueError)
    ELSE IF ~ \A i \in DOMAIN articles : IsRawArticle(articles[i])
         THEN Raised(store, ValueError)
    ELSE LET r == StoreArticlesLoop(store, topic_id, aggregation_run_id, articles, 1, {},
                                    NoRequests)
         IN  IF aggregation_run_id = "" THEN [r EXCEPT !.exc = ValueError, !.ret = <<>>]
             ELSE r

\* CandidateArticles._store_articles_in_s3
_store_articles_in_s3(store, topic_id, s3_client, aggregation_run_id, articles) ==
    IF ~ s3_client THEN Raised(store, ValueError)
    ELSE IF aggregation_run_id = "" THEN Raised(store, ValueError)
    ELSE IF ~ \A i \in DOMAIN articles : IsRawArticle(articles[i])
         THEN Raised(store, ValueError)
    ELSE StoreArticlesLoop(store, topic_id, aggregation_run_id, articles, 1, {}, NoRequests)

\* CandidateArticles.store_articles
store_articles(store, result_ref_type, topic_id, s3_client, aggregation_run_id, articles) ==
    IF result_ref_type = ResultRefTypes_S3
    THEN _store_articles_in_s3(store, topic_id, s3_client, aggregation_run_id, articles)
    ELSE Raised(store, NotImplementedError)

----------------------------------------------------------------------------
(* assets/news_assets.py: CandidateArticles.store_embeddings *)

\* the store call for an embedding with overwrite left at its default
StoreEmbedding_NoOverwrite(store, topic_id, article, embedding) ==
    store_object_in_s3(store, CANDIDATE_ARTICLES_S3_BUCKET,
                       EmbeddingKeyTable[topic_id, article],
                       EmbeddingJsonTable[embedding],
                       EmptyDict, EmptyDict, FALSE)

\* one iteration of the loop over the pairs: the store call for one embedding
StoreEmbedding(store, topic_id, article, embedding) ==
    store_object_in_s3(store, CANDIDATE_ARTICLES_S3_BUCKET,
                       EmbeddingKeyTable[topic_id, article],
                       EmbeddingJsonTable[embedding],
                       EmptyDict, EmptyDict, TRUE)

\* zip(articles, embeddings): the number of pairs it yields
ZipLen(articles, embeddings) == Min(Len(articles), Len(embeddings))

RECURSIVE StoreEmbeddingsLoop(_, _, _, _, _, _, _)
\* the loop of _store_embeddings_in_s3 from pair i on
StoreEmbeddingsLoop(store, topic_id, articles, embeddings, i, prefixes, done) ==
    IF i > ZipLen(articles, embeddings)
    THEN [s3 |-> store, exc |-> NoException,
          ret |-> <<CANDIDATE_ARTICLES_S3_BUCKET, SetToList(prefixes)>>] @@ done
    ELSE LET article == articles[i]
             embedding == embeddings[i]
             date_published == DateTable[article]
         IN  IF article.article_id # embedding.article_id
             THEN [s3 |-> store, exc |-> ValueError, ret |-> <<>>] @@ done
             ELSE IF ~ date_published.ok
             THEN [s3 |-> store, exc |-> ValueError, ret |-> <<>>] @@ done
             ELSE LET prefix == EmbeddingPrefixTable[topic_id, article]
                      r == StoreEmbedding(store, topic_id, article, embedding)
                  IN  IF r.exc # NoException
                      THEN [s3 |-> r.s3, exc |-> r.exc, ret |-> <<>>] @@ Requests(done, r)
                      ELSE StoreEmbeddingsLoop(r.s3, topic_id, articles, embeddings,
                                               i + 1, AddPrefix(prefixes, prefix),
                                               Requests(done, r))

\* CandidateArticles._store_embeddings_in_s3
_store_embeddings_in_s3(store, topic_id, s3_client, articles, embeddings) ==
    IF ~ s3_client THEN Raised(store, ValueError)
    ELSE IF ~ \A i \in DOMAIN articles : IsRawArticle(articles[i])
         THEN Raised(store, ValueError)
    ELSE IF ~ \A i \in DOMAIN embeddings : IsRawArticleEmbedding(embeddings[i])
         THEN Raised(store, ValueError)
    ELSE StoreEmbeddingsLoop(store, topic_id, articles, embeddings, 1, {}, NoRequests)

\* CandidateArticles.store_embeddings
store_embeddings(store, result_ref_type, topic_id, s3_client, articles, embeddings) ==
    IF result_ref_type = ResultRefTypes_S3
    THEN _store_embeddings_in_s3(store, topic_id, s3_client, articles, embeddings)
    ELSE Raised(store, NotImplementedError)

----------------------------------------------------------------------------
(* assets/news_assets.py: CandidateArticles.update_articles_is_sourced_tag *)

\* an update that marks the article as sourced whatever value it is given
OverlayIsSourced_AlwaysSourced(existing_tags, updated_tag_value) ==
    (is_sourced_article_tag_key :> ARTICLE_SOURCED_TAGS_FLAG) @@ existing_tags

\* tags_to_update alone, without the tags read from the object
OverlayIsSourced_OnlyFlag(existing_tags, updated_tag_value) ==
    (is_sourced_article_tag_key :> updated_tag_value)

\* existing_tags.update({is_sourced_article: updated_tag_value})
OverlayIsSourced(existing_tags, updated_tag_value) ==
    (is_sourced_article_tag_key :> updated_tag_value) @@ existing_tags

RECURSIVE UpdateTagsLoop(_, _, _, _, _, _)
\* the loop of _update_s3_articles_is_sourced_tag from article i on
UpdateTagsLoop(store, topic_id, articles, updated_tag_value, i, done) ==
    IF i > Len(articles)
    THEN [s3 |-> store, exc |-> NoException, ret |-> <<>>] @@ done
    ELSE LET article == articles[i]
         IN  IF ~ DateTable[article].ok
             THEN [s3 |-> store, exc |-> ValueError, ret |-> <<>>] @@ done
             ELSE LET object_key == ArticleKeyTable[topic_id, article]
                      asked == [writes |-> <<>>,
                                reads |-> <<<<"get_object_tagging", object_key>>>>]
                  IN  IF ~ HeadObject(store, CANDIDATE_ARTICLES_S3_BUCKET, object_key)
                      THEN [s3 |-> store, exc |-> ClientError, ret |-> <<>>]
                               @@ Requests(done, asked)
                      ELSE UpdateTagsLoop(
                               update_object_tags(store, CANDIDATE_ARTICLES_S3_BUCKET, object_key,
                                   OverlayIsSourced(
                                       get_object_tags(store, CANDIDATE_ARTICLES_S3_BUCKET, object_key),
                                       updated_tag_value)),
                               topic_id, articles, updated_tag_value, i + 1,
                               Requests(done, [asked EXCEPT !.writes = <<object_key>>]))

\* _update_s3_articles_is_sourced_tag without the check of updated_tag_value
_update_s3_articles_is_sourced_tag_AnyValue(store, topic_id, s3_client, articles, updated_tag_value) ==
    IF ~ s3_client THEN Raised(store, ValueError)
    ELSE IF ~ \A i \in DOMAIN articles : IsRawArticle(articles[i])
         THEN Raised(store, ValueError)
    ELSE UpdateTagsLoop(store, topic_id, articles, updated_tag_value, 1, NoRequests)

\* CandidateArticles._update_s3_articles_is_sourced_tag
_update_s3_articles_is_sourced_tag(store, topic_id, s3_client, articles, updated_tag_value) ==
    IF ~ s3_client THEN Raised(store, ValueError)
    ELSE IF ~ \A i \in DOMAIN articles : IsRawArticle(articles[i])
         THEN Raised(store, ValueError)
    ELSE IF updated_tag_value \notin {ARTICLE_SOURCED_TAGS_FLAG, ARTICLE_NOT_SOURCED_TAGS_FLAG}
         THEN Raised(store, ValueError)
    ELSE UpdateTagsLoop(store, topic_id, articles, updated_tag_value, 1, NoRequests)

\* CandidateArticles.update_articles_is_sourced_tag
update_articles_is_sourced_tag(store, result_ref_type, topic_id, s3_client, articles, updated_tag_value) ==
    IF result_ref_type = ResultRefTypes_S3
    THEN _update_s3_articles_is_sourced_tag(store, topic_id, s3_client, articles,
                                            updated_tag_value)
    ELSE Raised(store, NotImplementedError)

----------------------------------------------------------------------------
(* assets/news_assets.py: CandidateArticles.load_articles *)

ValidationError == "ValidationError"

\* the fields of RawArticle that have no default
RawArticleRequired ==
    {"article_id", "aggregator_id", "dt_published", "aggregation_index", "topic_id",
     "topic", "title", "url", "article_data", "sorting"}

\* a field of the parsed object, or the default the class declares
FieldOr(obj, name, default) == IF name \in DOMAIN obj THEN obj[name] ELSE default

\* RawArticle.parse_raw: ok = FALSE stands for the ValidationError it raises
parse_raw(body) ==
    LET obj == json_loads(body)
    IN  IF /\ RawArticleRequired \subseteq DOMAIN obj
           /\ MatchesDatePublishedRegex(obj["dt_published"])
        THEN [ok |-> TRUE,
              value |->
                [class |-> "RawArticle",
                 article_id |-> obj["article_id"], aggregator_id |-> obj["aggregator_id"],
                 dt_published |-> obj["dt_published"],
                 aggregation_index |-> obj["aggregation_index"],
                 topic_id |-> obj["topic_id"], topic |-> obj["topic"],
                 discovered_topic |-> FieldOr(obj, "discovered_topic", ""),
                 category |-> FieldOr(obj, "category", NO_CATEGORY_STR),
                 title |-> obj["title"], url |-> obj["url"],
                 author |-> FieldOr(obj, "author", ""),
                 article_full_text |-> FieldOr(obj, "article_full_text", ""),
                 article_text_snippet |-> FieldOr(obj, "article_text_snippet", ""),
                 article_text_description |-> FieldOr(obj, "article_text_description", ""),
                 article_data |-> obj["article_data"], sorting |-> obj["sorting"],
                 article_type |-> FieldOr(obj, "article_type", ArticleType_NEWS),
                 provider_domain |-> FieldOr(obj, "provider_domain", ""),
                 article_processed_data |-> FieldOr(obj, "article_processed_data", "")]]
        ELSE [ok |-> FALSE, value |-> EmptyDict]

\* parse_raw tabulated over the bodies store_articles writes
ParseRawTable == [body \in Range(ArticleJsonTable) |-> parse_raw(body)]

\* a listing of the topic's whole prefix, whatever the publishing date
_load_articles_from_s3_AnyDate(store, topic_id, s3_client, publishing_date) ==
    IF ~ s3_client THEN Raised(store, ValueError)
    ELSE IF ~ publishing_date.ok THEN Raised(store, ValueError)
    ELSE LET objs == read_objects_from_prefix_with_extension(
                         store, CANDIDATE_ARTICLES_S3_BUCKET,
                         "raw_candidate_articles/" \o topic_id,
                         candidate_article_s3_extension, DefaultSuccessMarkerFn, FALSE)
         IN  IF objs.exc # NoException THEN objs
             ELSE [objs EXCEPT !.ret =
                      [i \in DOMAIN objs.ret |->
                          <<objs.ret[i][1], ParseRawTable[objs.ret[i][2]].value,
                            objs.ret[i][3], objs.ret[i][4]>>]]

\* CandidateArticles._load_articles_from_s3; publishing_date.ok = FALSE
\* stands for a publishing_date that was not given
_load_articles_from_s3(store, topic_id, s3_client, publishing_date) ==
    IF ~ s3_client THEN Raised(store, ValueError)
    ELSE IF ~ publishing_date.ok THEN Raised(store, ValueError)
    ELSE LET publishing_date_str == dt_to_lexicographic_date_s3_prefix(publishing_date)
             prefix == _get_raw_candidates_s3_object_prefix(topic_id, publishing_date_str)
             objs == read_objects_from_prefix_with_extension(
                         store, CANDIDATE_ARTICLES_S3_BUCKET, prefix,
                         candidate_article_s3_extension, DefaultSuccessMarkerFn, FALSE)
         IN  IF objs.exc # NoException THEN objs
             ELSE IF \E i \in DOMAIN objs.ret : ~ ParseRawTable[objs.ret[i][2]].ok
                  THEN [objs EXCEPT !.exc = ValidationError, !.ret = <<>>]
             ELSE [objs EXCEPT !.ret =
                      [i \in DOMAIN objs.ret |->
                          <<objs.ret[i][1], ParseRawTable[objs.ret[i][2]].value,
                            objs.ret[i][3], objs.ret[i][4]>>]]

\* a url check that finds no url seen before
SeenUrl_Never(unique_urls, url) == FALSE

\* raw_article.url in unique_urls
SeenUrl(unique_urls, url) == url \in unique_urls

\* if tag_filter_key and tag_filter_value
TagFilterGiven(tag_filter_key, tag_filter_value) ==
    tag_filter_key # "" /\ tag_filter_value # ""

RECURSIVE LoadArticlesLoop_UrlFirst(_, _, _, _, _, _)
\* a loop that notes the url of every listed article before the tag filter
LoadArticlesLoop_UrlFirst(unsorted_candidate_articles, tag_filter_key, tag_filter_value, i, unique_urls, candidate_articles) ==
    IF i > Len(unsorted_candidate_articles)
    THEN [exc |-> NoException, ret |-> candidate_articles,
          candidate_articles |-> candidate_articles]
    ELSE LET a == unsorted_candidate_articles[i]
         IN  IF /\ TagFilterGiven(tag_filter_key, tag_filter_value)
                /\ tag_filter_key \notin DOMAIN a[4]
             THEN [exc |-> KeyError, ret |-> <<>>, candidate_articles |-> candidate_articles]
             ELSE IF \/ SeenUrl(unique_urls, a[2].url)
                     \/ /\ TagFilterGiven(tag_filter_key, tag_filter_value)
                        /\ a[4][tag_filter_key] # tag_filter_value
             THEN LoadArticlesLoop_UrlFirst(unsorted_candidate_articles, tag_filter_key,
                                            tag_filter_value, i + 1,
                                            unique_urls \cup {a[2].url}, candidate_articles)
             ELSE LoadArticlesLoop_UrlFirst(unsorted_candidate_articles, tag_filter_key,
                                            tag_filter_value, i + 1,
                                            unique_urls \cup {a[2].url},
                                            Append(candidate_articles, <<a[2], a[3], a[4]>>))

RECURSIVE LoadArticlesLoop(_, _, _, _, _, _)
\* the loop of load_articles from listed article i on
LoadArticlesLoop(unsorted_candidate_articles, tag_filter_key, tag_filter_value, i, unique_urls, candidate_articles) ==
    IF i > Len(unsorted_candidate_articles)
    THEN [exc |-> NoException, ret |-> candidate_articles,
          candidate_articles |-> candidate_articles]
    ELSE LET a == unsorted_candidate_articles[i]
             raw_article == a[2]
             object_metadata == a[3]
             object_tags == a[4]
         IN  IF /\ TagFilterGiven(tag_filter_key, tag_filter_value)
                /\ tag_filter_key \notin DOMAIN object_tags
             THEN [exc |-> KeyError, ret |-> <<>>, candidate_articles |-> candidate_articles]
             ELSE IF /\ TagFilterGiven(tag_filter_key, tag_filter_value)
                     /\ object_tags[tag_filter_key] # tag_filter_value
             THEN LoadArticlesLoop(unsorted_candidate_articles, tag_filter_key,
                                   tag_filter_value, i + 1, unique_urls, candidate_articles)
             ELSE IF SeenUrl(unique_urls, raw_article.url)
             THEN LoadArticlesLoop(unsorted_candidate_articles, tag_filter_key,
                                   tag_filter_value, i + 1, unique_urls, candidate_articles)
             ELSE LoadArticlesLoop(unsorted_candidate_articles, tag_filter_key,
                                   tag_filter_value, i + 1,
                                   unique_urls \cup {raw_article.url},
                                   Append(candidate_articles,
                                          <<raw_article, object_metadata, object_tags>>))

\* what a call leaves in self.candidate_articles, next to what it gives its caller
Cached(r, candidate_articles) == r @@ [candidate_articles |-> candidate_articles]

\* self.candidate_articles = [] at the start of the call, and nothing appended
CacheReset(r) == Cached(r, <<>>)

\* load_articles that serves every backend from the object store
load_articles_AnyBackend(store, result_ref_type, topic_id, tag_filter_key, tag_filter_value, s3_client, publishing_date) ==
    LET loaded == _load_articles_from_s3(store, topic_id, s3_client, publishing_date)
    IN  IF loaded.exc # NoException THEN CacheReset(loaded)
        ELSE LET r == LoadArticlesLoop(loaded.ret, tag_filter_key, tag_filter_value,
                                       1, {}, <<>>)
             IN  Cached([loaded EXCEPT !.exc = r.exc, !.ret = r.ret], r.candidate_articles)

\* CandidateArticles.load_articles
load_articles(store, result_ref_type, topic_id, tag_filter_key, tag_filter_value, s3_client, publishing_date) ==
    IF result_ref_type = ResultRefTypes_S3
    THEN LET loaded == _load_articles_from_s3(store, topic_id, s3_client, publishing_date)
         IN  IF loaded.exc # NoException THEN CacheReset(loaded)
             ELSE LET r == LoadArticlesLoop(loaded.ret, tag_filter_key, tag_filter_value,
                                            1, {}, <<>>)
                  IN  Cached([loaded EXCEPT !.exc = r.exc, !.ret = r.ret], r.candidate_articles)
    ELSE CacheReset(Raised(store, NotImplementedError))

----------------------------------------------------------------------------
(* Calls the repository is given *)

RepoArgs(result_ref_type, s3_client) ==
    [result_ref_type |-> result_ref_type, topic_id |-> TopicId, s3_client |-> s3_client]

\* well-formed calls over every batch, and the calls that fail validation
StoreArticlesInputs ==
    {RepoArgs(ResultRefTypes_S3, TRUE) @@ [aggregation_run_id |-> r, articles |-> b] :
        r \in RunIds, b \in ArticleBatches}
    \cup
    {RepoArgs(t, c) @@ [aggregation_run_id |-> r, articles |-> <<Art1>>] :
        t \in {ResultRefTypes_S3, "other"}, c \in BOOLEAN, r \in {"", "r1"}}

\* the articles store_embeddings is given: one per key, and the one with no key
EmbeddingArticles == {a \in RawArticles : a \in {Art1, Art3, Art4, Art5}}

StoreEmbeddingsInputs ==
    {RepoArgs(ResultRefTypes_S3, TRUE) @@ [articles |-> b, embeddings |-> e] :
        b \in Batches(EmbeddingArticles), e \in Batches(RawArticleEmbeddings)}
    \cup
    {RepoArgs(t, c) @@ [articles |-> <<Art1>>, embeddings |-> <<>>] :
        t \in {ResultRefTypes_S3, "other"}, c \in BOOLEAN}

\* calls of the adapter's store_object_in_s3
BucketName == "test-bucket"

StoreObjectInputs ==
    [bucket_name : {BucketName},
     object_key : {"k1", "k2"},
     body : {"x", "y"},
     object_tags : TagDictInputs,
     object_metadata : {EmptyDict, ("m" :> "1"), ("m" :> "2") @@ ("n" :> "3")},
     overwrite_allowed : BOOLEAN]

UpdateTagInputs ==
    {RepoArgs(ResultRefTypes_S3, TRUE) @@ [articles |-> b, updated_tag_value |-> v] :
        b \in ArticleBatches,
        v \in {ARTICLE_SOURCED_TAGS_FLAG, ARTICLE_NOT_SOURCED_TAGS_FLAG}}
    \cup
    {RepoArgs(t, c) @@ [articles |-> <<Art1>>, updated_tag_value |-> v] :
        t \in {ResultRefTypes_S3, "other"}, c \in BOOLEAN,
        v \in {ARTICLE_SOURCED_TAGS_FLAG, "Maybe"}}

\* the tag filters load_articles is given: none, the tag of the articles
\* with each of its values, a key without a value, and a key no article has
TagFilters ==
    {<<"", "">>,
     <<is_sourced_article_tag_key, ARTICLE_SOURCED_TAGS_FLAG>>,
     <<is_sourced_article_tag_key, ARTICLE_NOT_SOURCED_TAGS_FLAG>>,
     <<is_sourced_article_tag_key, "">>,
     <<"other", "x">>}

\* the days articles were published on, and a day without articles
PublishingDates ==
    {fromisoformat(DtJan31Early), fromisoformat(DtFeb01),
     fromisoformat("2023-01-30T10:00:00+00:00")}

LoadArticlesInputs ==
    {RepoArgs(ResultRefTypes_S3, TRUE)
        @@ [tag_filter_key |-> f[1], tag_filter_value |-> f[2], publishing_date |-> d] :
        f \in TagFilters, d \in PublishingDates}
    \cup
    {RepoArgs(t, c)
        @@ [tag_filter_key |-> "", tag_filter_value |-> "", publishing_date |-> d] :
        t \in {ResultRefTypes_S3, "other"}, c \in BOOLEAN,
        d \in {fromisoformat(DtJan31Early), InvalidDate}}

----------------------------------------------------------------------------
(* The repository used by one caller at a time *)

Writers == {1, 2}

\* no RawArticle has been constructed yet
NoArticle == [class |-> "None"]

Init ==
    /\ s3 = EmptyDict
    /\ op = "idle"
    /\ args = EmptyDict
    /\ exc = NoException
    /\ ret = <<>>
    /\ pre = EmptyDict
    /\ writes = <<>>
    /\ reads = <<>>
    /\ pc = [w \in Writers |-> "idle"]
    /\ wargs = [w \in Writers |-> EmptyDict]
    /\ putlog = <<>>
    /\ wpos = [w \in Writers |-> 0]
    /\ instance = NoArticle

\* no call is under way: the next one can start
Idle == op = "idle"

\* a completed call: what it left in the store and what the caller saw
Completed(name, a, r) ==
    /\ s3' = r.s3
    /\ op' = name
    /\ args' = a
    /\ exc' = r.exc
    /\ ret' = r.ret
    /\ pre' = s3
    /\ writes' = r.writes
    /\ reads' = r.reads
    /\ UNCHANGED <<racevars, instance>>

StoreArticles ==
    /\ Idle
    /\ \E a \in StoreArticlesInputs :
        Completed("store_articles", a,
                  store_articles(s3, a.result_ref_type, a.topic_id, a.s3_client,
                                 a.aggregation_run_id, a.articles))

UpdateArticlesIsSourcedTag ==
    /\ Idle
    /\ \E a \in UpdateTagInputs :
        Completed("update_articles_is_sourced_tag", a,
                  update_articles_is_sourced_tag(s3, a.result_ref_type, a.topic_id,
                                                 a.s3_client, a.articles,
                                                 a.updated_tag_value))

\* the caller has taken the result; the next call can start
Return ==
    /\ op # "idle"
    /\ op' = "idle"
    /\ args' = EmptyDict
    /\ exc' = NoException
    /\ ret' = <<>>
    /\ pre' = EmptyDict
    /\ writes' = <<>>
    /\ reads' = <<>>
    /\ UNCHANGED <<s3, racevars, instance>>

LoadArticles ==
    /\ Idle
    /\ \E a \in LoadArticlesInputs :
        Completed("load_articles", a,
                  load_articles(s3, a.result_ref_type, a.topic_id, a.tag_filter_key,
                                a.tag_filter_value, a.s3_client, a.publishing_date))

Next == StoreArticles \/ UpdateArticlesIsSourcedTag \/ LoadArticles \/ Return

Spec == Init /\ [][Next]_vars

----------------------------------------------------------------------------
(* Embeddings stored by one caller at a time *)

StoreEmbeddings ==
    /\ Idle
    /\ \E a \in StoreEmbeddingsInputs :
        Completed("store_embeddings", a,
                  store_embeddings(s3, a.result_ref_type, a.topic_id, a.s3_client,
                                   a.articles, a.embeddings))

NextEmbeddings == StoreEmbeddings \/ Return

SpecEmbeddings == Init /\ [][NextEmbeddings]_vars

----------------------------------------------------------------------------
(* The object-store adapter used by one caller at a time *)

StoreObjectInS3 ==
    /\ Idle
    /\ \E a \in StoreObjectInputs :
        Completed("store_object_in_s3", a,
                  store_object_in_s3(s3, a.bucket_name, a.object_key, a.body,
                                     a.object_tags, a.object_metadata,
                                     a.overwrite_allowed) @@ [ret |-> <<>>])

NextS3 == StoreObjectInS3 \/ Return

SpecS3 == Init /\ [][NextS3]_vars

----------------------------------------------------------------------------
(* A prefix of the bucket written and listed by one caller at a time *)

\* keys under the prefix "p" (one of them under "pq/"), one with another
\* extension, and one under another prefix
ListedKeys == {"p/a.json", "p/b.json", "p/c.txt", "pq/a.json", "q/d.json"}

StoreListedInputs ==
    [bucket_name : {BucketName},
     object_key : ListedKeys,
     body : {"x"},
     object_tags : {EmptyDict, ArticleTags},
     object_metadata : {("m" :> "1")},
     overwrite_allowed : {TRUE}]

\* the times the clock shows when a marker is written
Clock ==
    {[year |-> 2023, month |-> 2, day |-> 1, hour |-> 9, minute |-> 5, second |-> 7,
      microsecond |-> 1234]}

StoreSuccessFileInputs ==
    [bucket_name : {BucketName},
     prefix : {"p"},
     success_marker_fn : {DefaultSuccessMarkerFn},
     object_metadata : {EmptyDict, ("aggregators" :> "bing,newsapi")},
     now : Clock]

\* a prefix whose marker is written, and one that never has a marker
GetSuccessFileInputs ==
    [bucket_name : {BucketName},
     prefix : {"p", "q"},
     success_marker_fn : {DefaultSuccessMarkerFn}]

\* the whole file name can be asked for as the extension, and "" asks for
\* every key
ReadObjectsInputs ==
    [bucket_name : {BucketName},
     prefix : {"p", "p/", "q", "r"},
     file_extension : {".json", ".txt", ""},
     success_marker_fn : {DefaultSuccessMarkerFn, success_marker_fn},
     check_success_file : BOOLEAN]

StoreListedObject ==
    /\ Idle
    /\ \E a \in StoreListedInputs :
        Completed("store_object_in_s3", a,
                  store_object_in_s3(s3, a.bucket_name, a.object_key, a.body,
                                     a.object_tags, a.object_metadata,
                                     a.overwrite_allowed) @@ [ret |-> <<>>])

StoreSuccessFile ==
    /\ Idle
    /\ \E a \in StoreSuccessFileInputs :
        Completed("store_success_file", a,
                  store_success_file(s3, a.bucket_name, a.prefix, a.success_marker_fn,
                                     a.object_metadata, a.now) @@ [ret |-> <<>>])

ReadObjectsFromPrefixWithExtension ==
    /\ Idle
    /\ \E a \in ReadObjectsInputs :
        Completed("read_objects_from_prefix_with_extension", a,
                  read_objects_from_prefix_with_extension(
                      s3, a.bucket_name, a.prefix, a.file_extension,
                      a.success_marker_fn, a.check_success_file))

GetSuccessFile ==
    /\ Idle
    /\ \E a \in GetSuccessFileInputs :
        Completed("get_success_file", a,
                  get_success_file(s3, a.bucket_name, a.prefix, a.success_marker_fn))

NextRead ==
    \/ StoreListedObject
    \/ StoreSuccessFile
    \/ GetSuccessFile
    \/ ReadObjectsFromPrefixWithExtension
    \/ Return

SpecRead == Init /\ [][NextRead]_vars

----------------------------------------------------------------------------
(* Article objects whose tags are also written through the adapter *)

\* two articles with one key each
TaggedArticles == {Art1, Art4}

StoreTaggedInputs ==
    {a \in StoreArticlesInputs :
        /\ a.result_ref_type = ResultRefTypes_S3 /\ a.s3_client
        /\ a.aggregation_run_id = "r1"
        /\ Range(a.articles) \subseteq TaggedArticles}

UpdateTaggedInputs ==
    {a \in UpdateTagInputs : Range(a.articles) \subseteq TaggedArticles}

UpdateObjectTagsInputs ==
    [bucket_name : {CANDIDATE_ARTICLES_S3_BUCKET},
     object_key : {ArticleKeyTable[TopicId, a] : a \in TaggedArticles},
     object_tags_to_update : TagDictInputs]

StoreTaggedArticles ==
    /\ Idle
    /\ \E a \in StoreTaggedInputs :
        Completed("store_articles", a,
                  store_articles(s3, a.result_ref_type, a.topic_id, a.s3_client,
                                 a.aggregation_run_id, a.articles))

UpdateTaggedArticles ==
    /\ Idle
    /\ \E a \in UpdateTaggedInputs :
        Completed("update_articles_is_sourced_tag", a,
                  update_articles_is_sourced_tag(s3, a.result_ref_type, a.topic_id,
                                                 a.s3_client, a.articles,
                                                 a.updated_tag_value))

UpdateObjectTags ==
    /\ Idle
    /\ \E a \in UpdateObjectTagsInputs :
        Completed("update_object_tags", a,
                  UpdateObjectTagsResult(s3, a.bucket_name, a.object_key,
                                         a.object_tags_to_update))

NextTags == StoreTaggedArticles \/ UpdateTaggedArticles \/ UpdateObjectTags \/ Return

SpecTags == Init /\ [][NextTags]_vars

----------------------------------------------------------------------------
(* Articles and their embeddings stored, tagged and loaded by one caller at a time *)

\* calls with an embedding for each article, of the article's id
AlignedEmbeddingsInputs ==
    {a \in StoreEmbeddingsInputs :
        /\ a.result_ref_type = ResultRefTypes_S3 /\ a.s3_client
        /\ Len(a.articles) = Len(a.embeddings)
        /\ \A i \in DOMAIN a.articles :
              /\ DateTable[a.articles[i]].ok
              /\ a.embeddings[i].article_id = a.articles[i].article_id
              /\ a.embeddings[i].embedding = <<3>>}

StoreAlignedEmbeddings ==
    /\ Idle
    /\ \E a \in AlignedEmbeddingsInputs :
        Completed("store_embeddings", a,
                  store_embeddings(s3, a.result_ref_type, a.topic_id, a.s3_client,
                                   a.articles, a.embeddings))

NextRepository ==
    \/ StoreArticles
    \/ StoreAlignedEmbeddings
    \/ LoadArticles
    \/ UpdateArticlesIsSourcedTag
    \/ Return

SpecRepository == Init /\ [][NextRepository]_vars

----------------------------------------------------------------------------
(* The repository given calls that its checks refuse, among calls it serves *)

\* a call's checks refuse it: another backend, no client, no run id
Refused(a) ==
    \/ a.result_ref_type # ResultRefTypes_S3
    \/ ~ a.s3_client
    \/ "aggregation_run_id" \in DOMAIN a /\ a.aggregation_run_id = ""

\* a batch whose second item is of the other class
MistypedArticles == <<Art1, RawArticleEmbedding("a1", <<3>>)>>
MistypedEmbeddings == <<RawArticleEmbedding("a1", <<3>>), Art1>>

ValidatedStoreArticlesInputs ==
    StoreTaggedInputs
    \cup {a \in StoreArticlesInputs : Refused(a)}
    \cup {RepoArgs(t, TRUE) @@ [aggregation_run_id |-> "r1", articles |-> MistypedArticles] :
             t \in {ResultRefTypes_S3, "other"}}

ValidatedStoreEmbeddingsInputs ==
    {a \in AlignedEmbeddingsInputs : Range(a.articles) \subseteq TaggedArticles}
    \cup {a \in StoreEmbeddingsInputs : Refused(a)}
    \cup {RepoArgs(ResultRefTypes_S3, TRUE) @@ [articles |-> b, embeddings |-> e] :
             b \in {MistypedArticles, <<Art1, Art4>>},
             e \in {MistypedEmbeddings, <<RawArticleEmbedding("a1", <<3>>)>>}}

ValidatedUpdateTagInputs ==
    UpdateTaggedInputs
    \cup {RepoArgs(ResultRefTypes_S3, TRUE)
             @@ [articles |-> MistypedArticles, updated_tag_value |-> ARTICLE_SOURCED_TAGS_FLAG]}

ValidatedStoreArticles ==
    /\ Idle
    /\ \E a \in ValidatedStoreArticlesInputs :
        Completed("store_articles", a,
                  store_articles(s3, a.result_ref_type, a.topic_id, a.s3_client,
                                 a.aggregation_run_id, a.articles))

ValidatedStoreEmbeddings ==
    /\ Idle
    /\ \E a \in ValidatedStoreEmbeddingsInputs :
        Completed("store_embeddings", a,
                  store_embeddings(s3, a.result_ref_type, a.topic_id, a.s3_client,
                                   a.articles, a.embeddings))

ValidatedUpdateArticlesIsSourcedTag ==
    /\ Idle
    /\ \E a \in ValidatedUpdateTagInputs :
        Completed("update_articles_is_sourced_tag", a,
                  update_articles_is_sourced_tag(s3, a.result_ref_type, a.topic_id,
                                                 a.s3_client, a.articles,
                                                 a.updated_tag_value))

NextValidation ==
    \/ ValidatedStoreArticles
    \/ ValidatedStoreEmbeddings
    \/ ValidatedUpdateArticlesIsSourcedTag
    \/ LoadArticles
    \/ Return

SpecValidation == Init /\ [][NextValidation]_vars

----------------------------------------------------------------------------
(* Two callers inside store_object_in_s3 at once: each request to the store *)
(* (head_object, put_object) is one step                                    *)

\* the call starts: with overwrite allowed it goes straight to put_object
RaceBegin(w) ==
    /\ pc[w] = "idle"
    /\ \E a \in StoreObjectInputs :
           /\ wargs' = [wargs EXCEPT ![w] = a]
           /\ pc' = [pc EXCEPT ![w] = IF a.overwrite_allowed THEN "put" ELSE "check"]
    /\ UNCHANGED <<s3, putlog, wpos, seqvars, instance>>

\* object_exists: head_object answers for the store as it is now
RaceCheck(w) ==
    /\ pc[w] = "check"
    /\ pc' = [pc EXCEPT ![w] =
                 IF object_exists(s3, wargs[w].bucket_name, wargs[w].object_key)
                 THEN "raised" ELSE "put"]
    /\ UNCHANGED <<s3, wargs, putlog, wpos, seqvars, instance>>

\* put_object
RacePut(w) ==
    /\ pc[w] = "put"
    /\ s3' = PutObject(s3, wargs[w].bucket_name, wargs[w].object_key, wargs[w].body,
                       wargs[w].object_metadata, UrlEncodeTable[wargs[w].object_tags])
    /\ putlog' = Append(putlog, w)
    /\ pc' = [pc EXCEPT ![w] = "done"]
    /\ UNCHANGED <<wargs, wpos, seqvars, instance>>

NextRace == \E w \in Writers : RaceBegin(w) \/ RaceCheck(w) \/ RacePut(w)

SpecRace == Init /\ [][NextRace]_vars

----------------------------------------------------------------------------
(* assets/news_assets.py: RawArticle, enrichment from the article's url *)

\* what a call that touches no store leaves for its caller
Answered(name, a, e, r) ==
    /\ op' = name
    /\ args' = a
    /\ exc' = e
    /\ ret' = r
    /\ UNCHANGED <<s3, pre, writes, reads, racevars>>

UpperCase == "ABCDEFGHIJKLMNOPQRSTUVWXYZ"
LowerCase == "abcdefghijklmnopqrstuvwxyz"

RECURSIVE Lower(_)
\* str.lower()
Lower(s) ==
    IF Len(s) = 0 THEN ""
    ELSE LET i == IndexOf(UpperCase, Char(s, 1), 1)
         IN  (IF i = 0 THEN Char(s, 1) ELSE Char(LowerCase, i)) \o Lower(Tail(s))

RECURSIVE Split(_, _)
\* s.split(sep) for a separator of one character
Split(s, sep) ==
    LET i == IndexOf(s, sep, 1)
    IN  IF i = 0 THEN <<s>>
        ELSE <<SubSeq(s, 1, i - 1)>> \o Split(SubSeq(s, i + 1, Len(s)), sep)

RECURSIVE Join(_, _)
\* sep.join(parts)
Join(parts, sep) ==
    IF Len(parts) = 0 THEN ""
    ELSE IF Len(parts) = 1 THEN parts[1]
    ELSE parts[1] \o sep \o Join(Tail(parts), sep)

\* the entries of the public suffix list the urls in use fall under
PublicSuffixes == {"com", "org", "uk", "co.uk"}

\* a url without its scheme, given where its first colon is
AfterScheme(url, colon) ==
    IF colon > 0 /\ SubSeq(url, colon, colon + 2) = "://"
    THEN SubSeq(url, colon + 3, Len(url)) ELSE url

\* the part of s before position i, all of s when i is 0
Before(s, i) == IF i = 0 THEN s ELSE SubSeq(s, 1, i - 1)

\* what is left of a url without scheme when its path is cut off
BeforePath(rest) == Before(rest, IndexOf(rest, "/", 1))

\* the host of a url: what follows the scheme, up to the path
Netloc(url) == BeforePath(AfterScheme(url, IndexOf(url, ":", 1)))

\* the label at which the longest public suffix of a host starts, one past
\* the last label when it ends with none
SuffixStart(labels) ==
    LET starts == {i \in 1..Len(labels) :
                      Lower(Join(SubSeq(labels, i, Len(labels)), ".")) \in PublicSuffixes}
    IN  IF starts = {} THEN Len(labels) + 1
        ELSE CHOOSE i \in starts : \A j \in starts : i <= j

\* the suffix, the label before it, and the labels before that
ExtractResult(labels, from) ==
    [subdomain |-> Join(SubSeq(labels, 1, from - 2), "."),
     domain    |-> IF from >= 2 THEN labels[from - 1] ELSE "",
     suffix    |-> Join(SubSeq(labels, from, Len(labels)), ".")]

ExtractLabels(labels) == ExtractResult(labels, SuffixStart(labels))

\* tldextract.extract(url)
tldextract_extract(url) == ExtractLabels(Split(Netloc(url), "."))

\* parts.append(part.lower()) when the part is there and is not the one to skip
Appended(part, skipped) == IF part # "" /\ part # skipped THEN <<part>> ELSE <<>>

\* process_article_data, lines 74 to 82, given the lower case of the three parts
JoinedParts(subdomain, domain, suffix) ==
    Join(Appended(subdomain, "www") \o Appended(domain, "") \o Appended(suffix, ""), ".")

DomainOf(ext_res) ==
    JoinedParts(Lower(ext_res.subdomain), Lower(ext_res.domain), Lower(ext_res.suffix))

\* process_article_data, lines 73 to 82: the value given to provider_domain
ProviderDomain(url) == DomainOf(tldextract_extract(url))

\* what NewsPlease.from_url found at a url. A text the page does not have
\* (None) and an empty text are both falsy and are both written "".
NewsArticle(maintext, description) ==
    [class |-> "NewsArticle", description |-> description, title |-> "page title",
     maintext |-> maintext]

\* article.get_serializable_dict()
get_serializable_dict(article) ==
    [description |-> article.description, title |-> article.title,
     maintext |-> article.maintext]

\* d.pop(key): the value that was under the key
dict_pop(d, key) == d[key]

\* what a call of process_article_data leaves: the article, what it returns,
\* and whether it fetched the url
Unprocessed(self, r, fetched) == [self |-> self, exc |-> NoException, ret |-> r, fetched |-> fetched, invoked |-> TRUE]

\* a getter that finds its field set: process_article_data is not invoked
NotInvoked(self) == [Unprocessed(self, <<>>, FALSE) EXCEPT !.invoked = FALSE]

\* the provider domain is derived only once the page has a main text
process_article_data_DomainOnSuccess(self, article) ==
    IF self.article_processed_data # ""
    THEN Unprocessed(self, self.article_processed_data, FALSE)
    ELSE IF article = NoArticle \/ article.maintext = ""
         THEN Unprocessed(self, <<>>, TRUE)
         ELSE Unprocessed(
                [self EXCEPT !.provider_domain = IF @ = "" THEN ProviderDomain(self.url) ELSE @,
                             !.article_full_text = article.maintext,
                             !.article_text_description =
                                 IF @ = "" THEN article.description ELSE @,
                             !.article_processed_data =
                                 JsonString(dict_pop(get_serializable_dict(article), "maintext"))],
                <<>>, TRUE)

\* RawArticle.process_article_data, with the article the fetch of self.url
\* gives (NoArticle when it gives none)
process_article_data(self, article) ==
    IF self.article_processed_data # ""
    THEN Unprocessed(self, self.article_processed_data, FALSE)
    ELSE LET domained == [self EXCEPT !.provider_domain =
                                          IF @ = "" THEN ProviderDomain(self.url) ELSE @]
         IN  IF article = NoArticle \/ article.maintext = ""
             THEN Unprocessed(domained, <<>>, TRUE)
             ELSE Unprocessed(
                    [domained EXCEPT !.article_full_text = article.maintext,
                                     !.article_text_description =
                                         IF @ = "" THEN article.description ELSE @,
                                     !.article_processed_data =
                                         JsonString(dict_pop(get_serializable_dict(article),
                                                             "maintext"))],
                    <<>>, TRUE)

\* the getter looks at the processed data, not at its own field
get_article_text_OnProcessedData(self, article) ==
    LET r == IF self.article_processed_data = "" THEN process_article_data(self, article)
             ELSE NotInvoked(self)
    IN  [r EXCEPT !.ret = r.self.article_full_text]

\* RawArticle.get_article_text
get_article_text(self, article) ==
    LET r == IF self.article_full_text = "" THEN process_article_data(self, article)
             ELSE NotInvoked(self)
    IN  [r EXCEPT !.ret = r.self.article_full_text]

\* RawArticle.get_article_text_description
get_article_text_description(self, article) ==
    LET r == IF self.article_text_description = "" THEN process_article_data(self, article)
             ELSE NotInvoked(self)
    IN  [r EXCEPT !.ret = r.self.article_text_description]

\* urls with a www host, a host under a two-label suffix, upper case, and
\* no host at all
EnrichUrls ==
    {"https://www.inc.com/sania-khan/invalid-article.html",
     "https://News.BBC.co.uk/story", "http://WWW.Example.org", "url"}

\* articles as a producer or a load hands them over: any of the derived
\* fields already set
EnrichArticles ==
    {[Art1 EXCEPT !.url = u, !.provider_domain = pd, !.article_full_text = f,
                  !.article_text_description = d, !.article_processed_data = p] :
        u \in EnrichUrls, pd \in {"", "preset.org"}, f \in {"", "old text"},
        d \in {"", "old description"}, p \in {"", "\"old text\""}}

\* what the fetch of a url can give: nothing, a page without main text, and
\* pages with one
FetchOutcomes ==
    {NoArticle, NewsArticle("", "page description"),
     NewsArticle("main text", ""), NewsArticle("main \"text\"", "page description")}

NotFetched == [class |-> "NotFetched"]

\* RawArticle(...)
Construct ==
    /\ Idle
    /\ instance = NoArticle
    /\ \E a \in EnrichArticles :
           /\ instance' = a
           /\ Answered("RawArticle", EmptyDict, NoException, <<>>)

\* a call on the article, with what the fetch gave if the call fetched
Enriched(name, article, r) ==
    /\ instance' = r.self
    /\ Answered(name, [self |-> instance, invoked |-> r.invoked,
                       fetched |-> IF r.fetched THEN article ELSE NotFetched],
                r.exc, r.ret)

ProcessArticleData ==
    /\ Idle
    /\ instance # NoArticle
    /\ \E article \in FetchOutcomes :
           Enriched("process_article_data", article, process_article_data(instance, article))

GetArticleText ==
    /\ Idle
    /\ instance # NoArticle
    /\ \E article \in FetchOutcomes :
           Enriched("get_article_text", article, get_article_text(instance, article))

GetArticleTextDescription ==
    /\ Idle
    /\ instance # NoArticle
    /\ \E article \in FetchOutcomes :
           Enriched("get_article_text_description", article,
                    get_article_text_description(instance, article))

NextEnrich ==
    \/ Construct
    \/ ProcessArticleData
    \/ GetArticleText
    \/ GetArticleTextDescription
    \/ Return

SpecEnrich == Init /\ [][NextEnrich]_vars

----------------------------------------------------------------------------
(* A RawArticle written as its storage body and read back *)

\* articles whose texts hold quotes and backslashes, with optional fields at
\* their defaults and set
RoundTripArticles ==
    {[Art1 EXCEPT !.title = t, !.aggregation_index = n, !.discovered_topic = d,
                  !.article_full_text = f, !.article_processed_data = pd, !.author = au] :
        t \in {"title", "say \"hi\"", "a\\b"}, n \in {0, 12}, d \in {"", "x"},
        f \in {"", "text"}, pd \in {"", "\"text\""}, au \in {"", "me"}}

\* bodies that no json() call wrote: only the required fields, a required
\* field missing, and a dt_published the field's pattern refuses
RequiredOnlyBody ==
    "{\"article_id\": \"a1\", \"aggregator_id\": \"bingnews\", "
        \o "\"dt_published\": \"2023-01-31T23:59:59+00:00\", \"aggregation_index\": 0, "
        \o "\"topic_id\": \"t1\", \"topic\": \"topic\", \"title\": \"title\", "
        \o "\"url\": \"u1\", \"article_data\": \"data\", \"sorting\": \"Date\"}"

ForeignBodies ==
    {RequiredOnlyBody,
     "{\"article_id\": \"a1\", \"aggregator_id\": \"bingnews\"}",
     "{\"article_id\": \"a1\", \"aggregator_id\": \"bingnews\", "
        \o "\"dt_published\": \"2023-01-31\", \"aggregation_index\": 0, "
        \o "\"topic_id\": \"t1\", \"topic\": \"topic\", \"title\": \"title\", "
        \o "\"url\": \"u1\", \"article_data\": \"data\", \"sorting\": \"Date\"}"}

\* article.json()
Serialize ==
    /\ Idle
    /\ \E a \in RoundTripArticles :
           /\ instance' = a
           /\ Answered("json", EmptyDict, NoException, RawArticle_json(a))

\* RawArticle.parse_raw(body) of the body json() has just returned
ParseSerialized ==
    /\ op = "json"
    /\ LET parsed == parse_raw(ret)
       IN  Answered("parse_raw", [body |-> ret],
                    IF parsed.ok THEN NoException ELSE ValidationError, parsed.value)
    /\ UNCHANGED instance

\* RawArticle.parse_raw(body) of a body from elsewhere
ParseForeign ==
    /\ Idle
    /\ \E body \in ForeignBodies :
           LET parsed == parse_raw(body)
           IN  Answered("parse_raw", [body |-> body],
                        IF parsed.ok THEN NoException ELSE ValidationError, parsed.value)
    /\ instance' = NoArticle

NextRoundTrip == Serialize \/ ParseSerialized \/ ParseForeign \/ Return

SpecRoundTrip == Init /\ [][NextRoundTrip]_vars

----------------------------------------------------------------------------
(* utils/datetime.py: standardize_published_date *)

PublishedDateInvalidFormat == "PublishedDateInvalidFormat"

\* Patterns are written as templates: "9" stands for [0-9], "." for any
\* character, every other character for itself; all are anchored at both ends.
BING_NEWS_PUBLISHED_DATE_REGEX == "9999-99-99T99:99:99.9999999Z"
SecondsRegex == "9999-99-99.99:99:99"
DateOnlyRegex == "9999-99-99"

RECURSIVE MatchesHere(_, _)
\* the template matches the whole of s
MatchesHere(template, s) ==
    IF Len(template) = 0 THEN Len(s) = 0
    ELSE /\ Len(s) > 0
         /\ CASE Char(template, 1) = "9" -> Char(s, 1) \in Digits
              [] Char(template, 1) = "." -> Char(s, 1) # "\n"
              [] OTHER -> Char(s, 1) = Char(template, 1)
         /\ MatchesHere(Tail(template), Tail(s))

\* re.match(expected_dt_regex, dt_str): "$" also matches just before a
\* newline that ends the string
re_match(template, s) ==
    \/ MatchesHere(template, s)
    \/ Len(s) > 0 /\ Char(s, Len(s)) = "\n" /\ MatchesHere(template, SubSeq(s, 1, Len(s) - 1))

NoDatetime == [ok |-> FALSE, year |-> 0, month |-> 0, day |-> 0,
               hour |-> 0, minute |-> 0, second |-> 0, utc |-> FALSE]

\* the fields of a datetime when they are a date and a time of day
CheckedDatetime(y, mo, d, h, mi, se, utc) ==
    IF /\ y >= 1 /\ mo \in 1..12 /\ d >= 1 /\ d <= DaysInMonth(y, mo)
       /\ h <= 23 /\ mi <= 59 /\ se <= 59
    THEN [ok |-> TRUE, year |-> y, month |-> mo, day |-> d,
          hour |-> h, minute |-> mi, second |-> se, utc |-> utc]
    ELSE NoDatetime

\* the time of day HH[:MM[:SS]] of a date, with or without the offset +00:00
DatetimeOf(date, time, utc) ==
    IF /\ MatchesHere("9999-99-99", date)
       /\ \/ MatchesHere("99", time)
          \/ MatchesHere("99:99", time)
          \/ MatchesHere("99:99:99", time)
    THEN CheckedDatetime(ToInt(SubSeq(date, 1, 4)), ToInt(SubSeq(date, 6, 7)),
                         ToInt(SubSeq(date, 9, 10)), ToInt(SubSeq(time, 1, 2)),
                         IF Len(time) >= 5 THEN ToInt(SubSeq(time, 4, 5)) ELSE 0,
                         IF Len(time) >= 8 THEN ToInt(SubSeq(time, 7, 8)) ELSE 0, utc)
    ELSE NoDatetime

\* a time string, given where its "+" is: what follows a "+" has to be the
\* offset 00:00 (the only offset the strings in use have)
TimeOf(date, tstr, plus) ==
    IF plus = 0 THEN DatetimeOf(date, tstr, FALSE)
    ELSE IF SubSeq(tstr, plus, Len(tstr)) = "+00:00"
         THEN DatetimeOf(date, SubSeq(tstr, 1, plus - 1), TRUE)
         ELSE NoDatetime

TimeString(date, tstr) == TimeOf(date, tstr, IndexOf(tstr, "+", 1))

\* datetime.fromisoformat of the strings standardize_published_date builds:
\* YYYY-MM-DD, one separator character of any kind, then the time string.
\* ok = FALSE stands for the ValueError it raises.
datetime_fromisoformat(s) ==
    IF Len(s) < 12 THEN NoDatetime
    ELSE TimeString(SubSeq(s, 1, 10), SubSeq(s, 12, Len(s)))

\* dt.isoformat() of a datetime without microseconds
isoformat(dt) ==
    ZeroPad(ToStr(dt.year), 4) \o "-" \o ZeroPad(ToStr(dt.month), 2)
        \o "-" \o ZeroPad(ToStr(dt.day), 2) \o "T" \o ZeroPad(ToStr(dt.hour), 2)
        \o ":" \o ZeroPad(ToStr(dt.minute), 2) \o ":" \o ZeroPad(ToStr(dt.second), 2)
        \o (IF dt.utc THEN "+00:00" ELSE "")

\* the parsed string given back, PublishedDateInvalidFormat for a ValueError
Standardized(standardized_dt) ==
    IF standardized_dt.ok THEN [exc |-> NoException, ret |-> isoformat(standardized_dt)]
    ELSE [exc |-> PublishedDateInvalidFormat, ret |-> <<>>]

\* standardize_published_date
standardize_published_date(dt_str, expected_dt_regex) ==
    IF re_match(expected_dt_regex, dt_str)
    THEN Standardized(datetime_fromisoformat(Before(dt_str, IndexOf(dt_str, ".", 1)) \o "+00:00"))
    ELSE [exc |-> PublishedDateInvalidFormat, ret |-> <<>>]

\* published dates as aggregators give them: with and without a fraction,
\* with a fraction too short, no calendar date, no time of day, a trailing
\* newline
DtStrings ==
    {date \o time : date \in {"2021-04-11", "2021-02-30", "2024-02-29", "2023-13-01"},
                    time \in {"T21:02:39.0004166Z", "T21:02:39.00166Z", "T24:00:00.0000000Z",
                              "T23:59:60.0000000Z", "T21:02:39x0004166Z", "T21:02:39.0004166Z\n",
                              "T21:02:39", " 08:00:00", "T21:02:39Z", ""}}

ExpectedDtRegexes == {BING_NEWS_PUBLISHED_DATE_REGEX, SecondsRegex, DateOnlyRegex}

StandardizePublishedDate ==
    /\ Idle
    /\ \E dt_str \in DtStrings, expected_dt_regex \in ExpectedDtRegexes :
           LET r == standardize_published_date(dt_str, expected_dt_regex)
           IN  Answered("standardize_published_date",
                        [dt_str |-> dt_str, expected_dt_regex |-> expected_dt_regex],
                        r.exc, r.ret)
    /\ UNCHANGED instance

NextDates == StandardizePublishedDate \/ Return

SpecDates == Init /\ [][NextDates]_vars

----------------------------------------------------------------------------
(* utils/s3.py: dt_to_lexicographic_s3_prefix and lexicographic_s3_prefix_to_dt *)

\* tzinfo of a naive datetime, and of an aware one at an offset of whole hours
NaiveTz == [aware |-> FALSE, utcoffset |-> 0]
Tz(hours) == [aware |-> TRUE, utcoffset |-> hours]

\* datetime(year, month, day, hour, minute, second, microsecond, tzinfo)
Datetime(y, mo, d, h, mi, se, us, tz) ==
    [year |-> y, month |-> mo, day |-> d, hour |-> h, minute |-> mi, second |-> se,
     microsecond |-> us, tzinfo |-> tz]

RECURSIVE DaysBeforeMonth(_, _)
\* the days of the year before the first of the month
DaysBeforeMonth(y, m) ==
    IF m = 1 THEN 0 ELSE DaysBeforeMonth(y, m - 1) + DaysInMonth(y, m - 1)

\* date.toordinal()
toordinal(dt) ==
    LET y == dt.year - 1
    IN  365 * y + (y \div 4) - (y \div 100) + (y \div 400)
            + DaysBeforeMonth(dt.year, dt.month) + dt.day

\* an integer quotient and remainder rounded down, as divmod gives them
Instant(days, seconds, microsecond) ==
    <<days + ((seconds - (seconds % 86400)) \div 86400), seconds % 86400, microsecond>>

\* what two datetimes are compared by: the fields of a naive one, the UTC
\* time of an aware one
ComparedBy(dt) ==
    Instant(toordinal(dt),
            3600 * (dt.hour - dt.tzinfo.utcoffset) + 60 * dt.minute + dt.second,
            dt.microsecond)

TupleLess(a, b) ==
    \/ a[1] < b[1]
    \/ a[1] = b[1] /\ a[2] < b[2]
    \/ a[1] = b[1] /\ a[2] = b[2] /\ a[3] < b[3]

\* d1 < d2 where Python defines it (a naive and an aware datetime do not
\* compare: TypeError)
datetime_lt(d1, d2) ==
    /\ d1.tzinfo.aware = d2.tzinfo.aware
    /\ TupleLess(ComparedBy(d1), ComparedBy(d2))

\* d1 == d2: a naive datetime never equals an aware one
datetime_eq(d1, d2) ==
    /\ d1.tzinfo.aware = d2.tzinfo.aware
    /\ ComparedBy(d1) = ComparedBy(d2)

\* a directive of one or two digits (%m %d %H %M %S), or of four (%Y)
DigitsOfWidth(part, least, most) ==
    Len(part) >= least /\ Len(part) <= most /\ AllDigits(part, 1, Len(part))

RECURSIVE RightPad(_, _)
\* %f: the digits given are the leading digits of the six
RightPad(part, width) == IF Len(part) >= width THEN part ELSE RightPad(part \o "0", width)

\* the datetime of the seven parts when each matches its directive and the
\* values are a date and a time of day; ok = FALSE stands for ValueError
ParsedParts(parts) ==
    IF /\ Len(parts) = 7
       /\ DigitsOfWidth(parts[1], 4, 4)
       /\ \A i \in 2..6 : DigitsOfWidth(parts[i], 1, 2)
       /\ DigitsOfWidth(parts[7], 1, 6)
    THEN LET y  == ToInt(parts[1])
             mo == ToInt(parts[2])
             d  == ToInt(parts[3])
             h  == ToInt(parts[4])
             mi == ToInt(parts[5])
             se == ToInt(parts[6])
         IN  IF /\ y >= 1 /\ mo \in 1..12 /\ d >= 1 /\ d <= DaysInMonth(y, mo)
                /\ h <= 23 /\ mi <= 59 /\ se <= 59
             THEN [ok |-> TRUE,
                   value |-> Datetime(y, mo, d, h, mi, se, ToInt(RightPad(parts[7], 6)), NaiveTz)]
             ELSE [ok |-> FALSE, value |-> <<>>]
    ELSE [ok |-> FALSE, value |-> <<>>]

\* datetime.strptime(prefix, DT_LEXICOGRAPHIC_STR_FORMAT): a naive datetime
lexicographic_s3_prefix_to_dt(prefix) == ParsedParts(Split(prefix, "/"))

\* naive datetimes, and aware ones in UTC and five hours east of it, around
\* the turn of a year, of a day and of a second, all of years of four digits
PrefixDatetimes ==
    {Datetime(2023, 4, 11, 21, 2, 39, 4166, tz) : tz \in {NaiveTz, Tz(0)}}
    \cup {Datetime(2023, 4, 11, 21, 2, 39, 0, tz) : tz \in {NaiveTz, Tz(0)}}
    \cup {Datetime(2023, 1, 1, h, 0, 0, 0, tz) : h \in {0, 2}, tz \in {NaiveTz, Tz(0), Tz(5)}}
    \cup {Datetime(2022, 12, 31, 23, 59, 59, 999999, tz) : tz \in {NaiveTz, Tz(0)}}
    \cup {Datetime(2024, 2, 29, 9, 5, 7, 1234, NaiveTz), Datetime(1000, 10, 2, 3, 4, 5, 60, NaiveTz)}

\* prefixes that no strftime call wrote: digits left out, no calendar date,
\* a part missing
WrittenPrefixes ==
    {"2023/4/11/21/2/39/4166", "2023/02/30/00/00/00/000000", "2023/04/11/21/02/60/000000",
     "2023/04/11", "999/12/31/00/00/00/000000"}

\* dt_to_lexicographic_s3_prefix of one datetime and of another
DtToLexicographicS3Prefix ==
    /\ Idle
    /\ \E d1 \in PrefixDatetimes, d2 \in PrefixDatetimes :
           Answered("dt_to_lexicographic_s3_prefix", [dt |-> d1, other |-> d2], NoException,
                    [prefix |-> dt_to_lexicographic_s3_prefix(d1),
                     other |-> dt_to_lexicographic_s3_prefix(d2)])
    /\ UNCHANGED instance

\* the result of lexicographic_s3_prefix_to_dt as the caller sees it
PrefixParsed(a, parsed) ==
    Answered("lexicographic_s3_prefix_to_dt", a,
             IF parsed.ok THEN NoException ELSE ValueError, parsed.value)

\* lexicographic_s3_prefix_to_dt of the prefix just returned
LexicographicS3PrefixToDt ==
    /\ op = "dt_to_lexicographic_s3_prefix"
    /\ PrefixParsed([prefix |-> ret.prefix, dt |-> args.dt],
                    lexicographic_s3_prefix_to_dt(ret.prefix))
    /\ UNCHANGED instance

\* lexicographic_s3_prefix_to_dt of a prefix from elsewhere
ParseWrittenPrefix ==
    /\ Idle
    /\ \E prefix \in WrittenPrefixes :
           PrefixParsed([prefix |-> prefix], lexicographic_s3_prefix_to_dt(prefix))
    /\ UNCHANGED instance

NextPrefix == DtToLexicographicS3Prefix \/ LexicographicS3PrefixToDt \/ ParseWrittenPrefix \/ Return

SpecPrefix == Init /\ [][NextPrefix]_vars

----------------------------------------------------------------------------
(* One repository object that loads again and again *)

\* CandidateArticles(result_ref_type, topic_id)
CandidateArticles(result_ref_type, topic_id) ==
    [class |-> "CandidateArticles", result_ref_type |-> result_ref_type,
     topic_id |-> topic_id, candidate_articles |-> <<>>]

\* two articles of one day, so that a listing has a first and a later article
CachedArticles == {Art2, Art3}

StoreCachedInputs ==
    {a \in StoreArticlesInputs :
        /\ a.result_ref_type = ResultRefTypes_S3 /\ a.s3_client
        /\ a.aggregation_run_id = "r1"
        /\ Range(a.articles) \subseteq CachedArticles}

\* tags written through the adapter: an article with a tag the other lacks
TagCachedInputs ==
    [bucket_name : {CANDIDATE_ARTICLES_S3_BUCKET},
     object_key : {ArticleKeyTable[TopicId, a] : a \in CachedArticles},
     object_tags_to_update : {("other" :> "x"), (is_sourced_article_tag_key :> "True")}]

\* the list starts anew with every call: what the attribute held is gone
candidate_articles_KeepsHeld(held, r) == held \o r.candidate_articles

\* self.candidate_articles after a call, given what it held before
candidate_articles_after(held, r) == r.candidate_articles

ConstructRepository ==
    /\ Idle
    /\ instance = NoArticle
    /\ \E t \in {ResultRefTypes_S3, "other"} :
           /\ instance' = CandidateArticles(t, TopicId)
           /\ Answered("CandidateArticles", EmptyDict, NoException, <<>>)

StoreCachedArticles ==
    /\ Idle
    /\ \E a \in StoreCachedInputs :
        Completed("store_articles", a,
                  store_articles(s3, a.result_ref_type, a.topic_id, a.s3_client,
                                 a.aggregation_run_id, a.articles))

TagCachedArticles ==
    /\ Idle
    /\ \E a \in TagCachedInputs :
        /\ <<a.bucket_name, a.object_key>> \in DOMAIN s3
        /\ Completed("update_object_tags", a,
                     UpdateObjectTagsResult(s3, a.bucket_name, a.object_key,
                                            a.object_tags_to_update))

\* a completed load_articles: what the caller saw, and the list the object
\* keeps
LoadedIntoCache(a, r) ==
    /\ instance' = [instance EXCEPT !.candidate_articles =
                        candidate_articles_after(instance.candidate_articles, r)]
    /\ s3' = r.s3
    /\ op' = "load_articles"
    /\ args' = a @@ [held |-> instance.candidate_articles]
    /\ exc' = r.exc
    /\ ret' = r.ret
    /\ pre' = s3
    /\ writes' = r.writes
    /\ reads' = r.reads
    /\ UNCHANGED racevars

\* load_articles on the repository object
LoadIntoCache ==
    /\ Idle
    /\ instance # NoArticle
    /\ \E a \in LoadArticlesInputs :
        /\ a.result_ref_type = instance.result_ref_type
        /\ LoadedIntoCache(a, load_articles(s3, instance.result_ref_type, instance.topic_id,
                                            a.tag_filter_key, a.tag_filter_value,
                                            a.s3_client, a.publishing_date))

NextCache ==
    \/ ConstructRepository
    \/ StoreCachedArticles
    \/ TagCachedArticles
    \/ LoadIntoCache
    \/ Return

SpecCache == Init /\ [][NextCache]_vars

----------------------------------------------------------------------------
(* Markers written under either name, and a reader that names none *)

\* the marker under the repository's name and under the reader's default
StoreMarkerInputs ==
    [bucket_name : {BucketName},
     prefix : {"p", "q"},
     success_marker_fn : {success_marker_fn, DefaultSuccessMarkerFn},
     object_metadata : {EmptyDict},
     now : Clock]

\* calls that leave success_marker_fn to its default
ReadDefaultMarkerInputs ==
    [bucket_name : {BucketName},
     prefix : {"p", "q"},
     file_extension : {".json", ""},
     check_success_file : BOOLEAN]

StoreMarker ==
    /\ Idle
    /\ \E a \in StoreMarkerInputs :
        Completed("store_success_file", a,
                  store_success_file(s3, a.bucket_name, a.prefix, a.success_marker_fn,
                                     a.object_metadata, a.now) @@ [ret |-> <<>>])

\* read_objects_from_prefix_with_extension(bucket_name, prefix, file_extension,
\* check_success_file=...)
ReadWithDefaultMarker ==
    /\ Idle
    /\ \E a \in ReadDefaultMarkerInputs :
        Completed("read_objects_from_prefix_with_extension", a,
                  read_objects_from_prefix_with_extension(
                      s3, a.bucket_name, a.prefix, a.file_extension,
                      DefaultSuccessMarkerFn, a.check_success_file))

NextMarker == StoreListedObject \/ StoreMarker \/ ReadWithDefaultMarker \/ Return

SpecMarker == Init /\ [][NextMarker]_vars

----------------------------------------------------------------------------
(* A repository given articles of its own topic and of another *)

StoreTopicsInputs ==
    {RepoArgs(ResultRefTypes_S3, TRUE) @@ [aggregation_run_id |-> r, articles |-> b] :
        r \in RunIds, b \in Batches({Art1, Art4, ArtOtherTopic})}

StoreTopicArticles ==
    /\ Idle
    /\ \E a \in StoreTopicsInputs :
        Completed("store_articles", a,
                  store_articles(s3, a.result_ref_type, a.topic_id, a.s3_client,
                                 a.aggregation_run_id, a.articles))

NextTopics == StoreTopicArticles \/ Return

SpecTopics == Init /\ [][NextTopics]_vars

----------------------------------------------------------------------------
(* Two aggregators inside store_articles at once: each request to the store *)
(* (head_object, put_object) of each article is one step                    *)

\* writer 1 stores the articles of "bingnews" under run "r1", writer 2 those
\* of "newsapi.org" under run "r2"
WriterAggregator(w) == IF w = 1 THEN "bingnews" ELSE "newsapi.org"
WriterRunId(w) == IF w = 1 THEN "r1" ELSE "r2"
WriterBatches(w) == Batches({a \in RawArticles : a.aggregator_id = WriterAggregator(w)})

\* the article the writer's loop is at
CurrentArticle(w) == wargs[w].articles[wpos[w]]

\* the call passes its checks and enters the loop
ArticlesBegin(w) ==
    /\ pc[w] = "idle"
    /\ \E b \in WriterBatches(w) :
           /\ wargs' = [wargs EXCEPT ![w] =
                            RepoArgs(ResultRefTypes_S3, TRUE)
                                @@ [aggregation_run_id |-> WriterRunId(w), articles |-> b]]
           /\ pc' = [pc EXCEPT ![w] = IF Len(b) = 0 THEN "done" ELSE "check"]
    /\ wpos' = [wpos EXCEPT ![w] = 1]
    /\ UNCHANGED <<s3, putlog, seqvars, instance>>

\* the article's date is read (ValueError when it is no date), then
\* object_exists: head_object answers for the store as it is now
ArticlesCheck(w) ==
    /\ pc[w] = "check"
    /\ pc' = [pc EXCEPT ![w] =
                 IF ~ DateTable[CurrentArticle(w)].ok THEN "raised"
                 ELSE IF object_exists(s3, CANDIDATE_ARTICLES_S3_BUCKET,
                                       ArticleKeyTable[wargs[w].topic_id, CurrentArticle(w)])
                      THEN "raised" ELSE "put"]
    /\ UNCHANGED <<s3, wargs, putlog, wpos, seqvars, instance>>

\* put_object of the article, then the loop goes on to the next article
ArticlesPut(w) ==
    /\ pc[w] = "put"
    /\ s3' = PutObject(s3, CANDIDATE_ARTICLES_S3_BUCKET,
                       ArticleKeyTable[wargs[w].topic_id, CurrentArticle(w)],
                       ArticleJsonTable[CurrentArticle(w)],
                       ArticleMetadata(wargs[w].aggregation_run_id, CurrentArticle(w)),
                       UrlEncodeTable[ArticleTags])
    /\ putlog' = Append(putlog, w)
    /\ wpos' = [wpos EXCEPT ![w] = wpos[w] + 1]
    /\ pc' = [pc EXCEPT ![w] = IF wpos[w] = Len(wargs[w].articles) THEN "done" ELSE "check"]
    /\ UNCHANGED <<wargs, seqvars, instance>>

NextArticlesRace == \E w \in Writers : ArticlesBegin(w) \/ ArticlesCheck(w) \/ ArticlesPut(w)

SpecArticlesRace == Init /\ [][NextArticlesRace]_vars

----------------------------------------------------------------------------
(* Properties of store_object_in_s3 *)

\* the object a call's arguments describe
ObjectOf(a) == [body |-> a.body, metadata |-> a.object_metadata, tags |-> a.object_tags]

ArgsKey(a) == <<a.bucket_name, a.object_key>>

\* C1: store_object_in_s3 with overwrite_allowed = FALSE on a key that holds
\* an object raises S3ObjectAlreadyExistsException and leaves the object's
\* body, metadata and tags as they were before the call.
C1_NoOverwriteRaisesAndKeepsObject ==
    (op = "store_object_in_s3" /\ ~ args.overwrite_allowed /\ ArgsKey(args) \in DOMAIN pre)
        => /\ exc = S3ObjectAlreadyExistsException
           /\ ArgsKey(args) \in DOMAIN s3
           /\ s3[ArgsKey(args)] = pre[ArgsKey(args)]

\* a refused write whose body, metadata and tags all differ from the object's
C1_Witness ==
    /\ op = "store_object_in_s3" /\ ~ args.overwrite_allowed
    /\ ArgsKey(args) \in DOMAIN pre
    /\ pre[ArgsKey(args)].body # args.body
    /\ pre[ArgsKey(args)].metadata # args.object_metadata
    /\ pre[ArgsKey(args)].tags # args.object_tags
    /\ exc = S3ObjectAlreadyExistsException

\* C2: store_object_in_s3 with overwrite_allowed = TRUE on an occupied key
\* returns normally, and the object is then exactly the second call's body,
\* metadata and tags: no metadata key and no tag of the first write remains.
C2_OverwriteReplacesWholeObject ==
    (op = "store_object_in_s3" /\ args.overwrite_allowed /\ ArgsKey(args) \in DOMAIN pre)
        => /\ exc = NoException
           /\ ArgsKey(args) \in DOMAIN s3
           /\ s3[ArgsKey(args)] = ObjectOf(args)

\* an overwrite of an object that had a metadata key and a tag the second
\* call does not give
C2_Witness ==
    /\ op = "store_object_in_s3" /\ args.overwrite_allowed
    /\ ArgsKey(args) \in DOMAIN pre
    /\ pre[ArgsKey(args)].body # args.body
    /\ "n" \in DOMAIN pre[ArgsKey(args)].metadata
    /\ "n" \notin DOMAIN args.object_metadata
    /\ "other" \in DOMAIN pre[ArgsKey(args)].tags
    /\ "other" \notin DOMAIN args.object_tags
    /\ exc = NoException

\* both writers went for the same key without overwrite and both finished
\* their put: each existence check answered "absent"
BothPut(w1, w2) ==
    /\ w1 # w2
    /\ pc[w1] = "done" /\ pc[w2] = "done"
    /\ ~ wargs[w1].overwrite_allowed /\ ~ wargs[w2].overwrite_allowed
    /\ ArgsKey(wargs[w1]) = ArgsKey(wargs[w2])

\* C3: when two concurrent store_object_in_s3 calls without overwrite on one
\* absent key both pass the existence check, both puts execute, neither call
\* raises, and the object is exactly the later put's body, metadata and tags.
C3_RaceLaterPutClobbers ==
    \A w1, w2 \in Writers :
        BothPut(w1, w2)
            => /\ Len(putlog) = 2
               /\ \A w \in Writers : pc[w] # "raised"
               /\ s3[ArgsKey(wargs[w1])] = ObjectOf(wargs[putlog[2]])

\* the interleaving happened, and the two writes differ in every part
C3_Witness ==
    \E w1, w2 \in Writers :
        /\ BothPut(w1, w2)
        /\ putlog = <<w1, w2>>
        /\ wargs[w1].body # wargs[w2].body
        /\ "n" \in DOMAIN wargs[w1].object_metadata
        /\ wargs[w2].object_metadata = EmptyDict
        /\ "other" \in DOMAIN wargs[w1].object_tags
        /\ wargs[w2].object_tags = EmptyDict

----------------------------------------------------------------------------
(* Properties of store_articles *)

\* the layout the documentation gives, read off the dt_published string:
\* raw_candidate_articles/{topic_id}/{YYYY}/{MM}/{DD}/{article_id}.json
DocDatePath(dt_published) ==
    SubSeq(dt_published, 1, 4) \o "/" \o SubSeq(dt_published, 6, 7)
        \o "/" \o SubSeq(dt_published, 9, 10)

DocArticlePrefix(topic_id, article) ==
    "raw_candidate_articles/" \o topic_id \o "/" \o DocDatePath(article.dt_published)

DocArticleKey(topic_id, article) ==
    <<CANDIDATE_ARTICLES_S3_BUCKET,
      DocArticlePrefix(topic_id, article) \o "/" \o article.article_id \o ".json">>

\* the object store_articles is documented to write for an article
DocArticleObject(aggregation_run_id, article) ==
    [body |-> ArticleJsonTable[article],
     metadata |-> [aggregation_run_id |-> aggregation_run_id,
                   aggregator_id |-> article.aggregator_id],
     tags |-> [is_sourced_article |-> "False"]]

\* the call got past the checks of its parameters
StoreArticlesRan ==
    /\ op = "store_articles"
    /\ args.result_ref_type = "s3" /\ args.s3_client /\ args.aggregation_run_id # ""

\* C4: after a successful store_articles call every article of the batch is
\* stored at raw_candidate_articles/{topic_id}/{YYYY/MM/DD of dt_published}/
\* {article_id}.json with its JSON serialization as body, metadata exactly
\* {aggregation_run_id: the call's run id, aggregator_id: the article's} and
\* tags exactly {is_sourced_article: "False"}.
C4_StoredArticlesLayout ==
    (op = "store_articles" /\ exc = NoException)
        => \A i \in DOMAIN args.articles :
              LET article == args.articles[i]
                  key == DocArticleKey(args.topic_id, article)
              IN  /\ key \in DOMAIN s3
                  /\ s3[key] = DocArticleObject(args.aggregation_run_id, article)

\* a successful call that stored two articles of different aggregators and
\* dates, after an earlier call of another run
C4_Witness ==
    /\ op = "store_articles" /\ exc = NoException
    /\ Len(args.articles) = 2
    /\ args.articles[1].aggregator_id # args.articles[2].aggregator_id
    /\ args.articles[1].dt_published # args.articles[2].dt_published
    /\ \E k \in DOMAIN pre : pre[k].metadata["aggregation_run_id"] # args.aggregation_run_id

\* article i maps to a key an earlier call or an earlier article of the batch occupies
KeyOccupied(i) ==
    \/ DocArticleKey(args.topic_id, args.articles[i]) \in DOMAIN pre
    \/ \E j \in 1..(i - 1) : DocArticleKey(args.topic_id, args.articles[j])
                                = DocArticleKey(args.topic_id, args.articles[i])

\* articles 1..k-1 were stored (each has a date and a free key) and article k
\* maps to an occupied key
FailsAtOccupied(k) ==
    /\ StoreArticlesRan
    /\ k \in DOMAIN args.articles
    /\ \A j \in 1..k : fromisoformat(args.articles[j].dt_published).ok
    /\ \A j \in 1..(k - 1) : ~ KeyOccupied(j)
    /\ KeyOccupied(k)

\* C5: when the k-th article of a store_articles batch maps to an occupied
\* key, the call raises S3ObjectAlreadyExistsException, articles 1..k-1 stay
\* stored, no put is made for articles k..n, and the object at the k-th key
\* is the one that was there (from before the call, or the earlier article's).
C5_DuplicateStopsBatch ==
    \A k \in 1..(MaxBatch + 1) :
        FailsAtOccupied(k)
            => /\ exc = S3ObjectAlreadyExistsException
               /\ \A j \in 1..(k - 1) :
                     /\ DocArticleKey(args.topic_id, args.articles[j]) \in DOMAIN s3
                     /\ s3[DocArticleKey(args.topic_id, args.articles[j])]
                           = DocArticleObject(args.aggregation_run_id, args.articles[j])
               /\ writes = [j \in 1..(k - 1) |->
                               DocArticleKey(args.topic_id, args.articles[j])[2]]
               /\ DOMAIN s3 = DOMAIN pre
                     \cup {DocArticleKey(args.topic_id, args.articles[j]) : j \in 1..(k - 1)}
               /\ \A key \in DOMAIN pre : s3[key] = pre[key]
               /\ LET key == DocArticleKey(args.topic_id, args.articles[k])
                  IN  /\ key \in DOMAIN s3
                      /\ key \notin DOMAIN pre =>
                            \E j \in 1..(k - 1) :
                                /\ DocArticleKey(args.topic_id, args.articles[j]) = key
                                /\ s3[key] = DocArticleObject(args.aggregation_run_id,
                                                              args.articles[j])

\* the second article of a batch hit a key that an earlier call had filled
\* with another body, after the first article was stored
C5_Witness ==
    /\ FailsAtOccupied(2)
    /\ exc = S3ObjectAlreadyExistsException
    /\ Len(writes) = 1
    /\ LET key == DocArticleKey(args.topic_id, args.articles[2])
       IN  key \in DOMAIN pre /\ pre[key].body # ArticleJsonTable[args.articles[2]]

\* a list without a repeated element
NoRepeats(xs) == \A i, j \in DOMAIN xs : xs[i] = xs[j] => i = j

\* C6: a successful store_articles returns the candidate bucket name and the
\* distinct article prefixes touched: one per distinct published date of the
\* batch, none repeated, none of a date no article has.
C6_ReturnsDistinctPrefixes ==
    (op = "store_articles" /\ exc = NoException)
        => /\ Len(ret) = 2
           /\ ret[1] = "news-aggregator-candidate-articles-dev"
           /\ NoRepeats(ret[2])
           /\ Range(ret[2]) = {DocArticlePrefix(args.topic_id, args.articles[i]) :
                                  i \in DOMAIN args.articles}
           /\ Len(ret[2]) = Cardinality({DocDatePath(args.articles[i].dt_published) :
                                            i \in DOMAIN args.articles})

\* a batch of two articles published in different months: two prefixes
C6_Witness ==
    /\ op = "store_articles" /\ exc = NoException
    /\ Len(args.articles) = 2
    /\ SubSeq(args.articles[1].dt_published, 6, 7) # SubSeq(args.articles[2].dt_published, 6, 7)
    /\ Len(ret[2]) = 2

\* a batch of two articles published on one day at different times: one prefix
C6_WitnessSameDay ==
    /\ op = "store_articles" /\ exc = NoException
    /\ Len(args.articles) = 2
    /\ args.articles[1].dt_published # args.articles[2].dt_published
    /\ Len(ret[2]) = 1

\* the key function composes the prefix function with the article's own date
KeyIsPrefixThenId ==
    \A t \in TopicIds, a \in RawArticles :
        fromisoformat(a.dt_published).ok
            => _get_raw_article_s3_object_key(t, a)
                  = _get_raw_candidates_s3_object_prefix(t, DocDatePath(a.dt_published))
                        \o "/" \o a.article_id \o ".json"

\* C7: the article key is {article prefix of the article's own published
\* date}/{article_id}.json, and store_articles and
\* update_articles_is_sourced_tag address that same key for the same article.
C7_OneKeyPerArticle ==
    /\ KeyIsPrefixThenId
    /\ (op \in {"store_articles", "update_articles_is_sourced_tag"} /\ exc = NoException)
          => /\ Len(writes) = Len(args.articles)
             /\ \A i \in DOMAIN args.articles :
                   writes[i] = DocArticleKey(args.topic_id, args.articles[i])[2]

\* a tag update reached the objects of two articles that store_articles had written
C7_Witness ==
    /\ op = "update_articles_is_sourced_tag" /\ exc = NoException
    /\ Len(writes) = 2 /\ writes[1] # writes[2]
    /\ \A i \in DOMAIN writes :
          pre[<<CANDIDATE_ARTICLES_S3_BUCKET, writes[i]>>].body
              = ArticleJsonTable[args.articles[i]]

----------------------------------------------------------------------------
(* Properties of store_embeddings *)

\* the call got past the checks of its parameters
StoreEmbeddingsRan ==
    /\ op = "store_embeddings"
    /\ args.result_ref_type = "s3" /\ args.s3_client

\* C8: store_embeddings given an articles list and an embeddings list of
\* different lengths raises an error and writes no object.
C8_UnequalLengthsWriteNothing ==
    (StoreEmbeddingsRan /\ Len(args.articles) # Len(args.embeddings))
        => /\ exc # NoException
           /\ writes = <<>>
           /\ s3 = pre

\* what the code does with lists of different lengths: the pairs zip yields
\* are stored and the call returns normally
C8_TruncatedBatchStored ==
    /\ StoreEmbeddingsRan
    /\ Len(args.articles) # Len(args.embeddings)
    /\ exc = NoException
    /\ Len(writes) >= 1
    /\ s3 # pre

\* C9: store_embeddings given equal-length lists in which some position k has
\* article.article_id # embedding.article_id raises an error and writes no
\* embedding at all, not even those before k whose ids match.
C9_MismatchWritesNothing ==
    (/\ StoreEmbeddingsRan
     /\ Len(args.articles) = Len(args.embeddings)
     /\ \E k \in DOMAIN args.articles :
           args.articles[k].article_id # args.embeddings[k].article_id)
        => /\ exc # NoException
           /\ writes = <<>>
           /\ s3 = pre

\* what the code does on a mismatch at position 2: the first pair is stored
\* before the call raises
C9_PairsBeforeMismatchStored ==
    /\ StoreEmbeddingsRan
    /\ Len(args.articles) = Len(args.embeddings)
    /\ Len(args.articles) >= 2
    /\ args.articles[2].article_id # args.embeddings[2].article_id
    /\ exc = ValueError
    /\ Len(writes) = 1
    /\ s3 # pre

DocEmbeddingKey(topic_id, article) ==
    <<CANDIDATE_ARTICLES_S3_BUCKET,
      "raw_candidate_article_embeddings/" \o topic_id \o "/"
          \o DocDatePath(article.dt_published) \o "/" \o article.article_id \o ".json">>

\* the same call made again on the store as it is now
StoreEmbeddingsAgain ==
    store_embeddings(s3, args.result_ref_type, args.topic_id, args.s3_client,
                     args.articles, args.embeddings)

\* C10: store_embeddings never fails with S3ObjectAlreadyExistsException; a
\* second call with the same aligned articles and embeddings does not either
\* and leaves the embedding objects as the first call left them; and after a
\* successful call each key holds the body of the embedding last given for it,
\* whatever it held before.
C10_StoreEmbeddingsIdempotent ==
    op = "store_embeddings"
        => /\ exc # S3ObjectAlreadyExistsException
           /\ StoreEmbeddingsAgain.exc # S3ObjectAlreadyExistsException
           /\ exc = NoException =>
                 /\ StoreEmbeddingsAgain.exc = NoException
                 /\ StoreEmbeddingsAgain.s3 = s3
                 /\ \A i \in 1..Min(Len(args.articles), Len(args.embeddings)) :
                       LET key == DocEmbeddingKey(args.topic_id, args.articles[i])
                       IN  (\A j \in (i + 1)..Min(Len(args.articles), Len(args.embeddings)) :
                               DocEmbeddingKey(args.topic_id, args.articles[j]) # key)
                               => /\ key \in DOMAIN s3
                                  /\ s3[key].body = EmbeddingJsonTable[args.embeddings[i]]

\* a successful call on two aligned pairs made a second time: every key it
\* wrote was already there and nothing changed
C10_Witness ==
    /\ op = "store_embeddings" /\ exc = NoException
    /\ Len(args.articles) = 2 /\ Len(args.embeddings) = 2
    /\ Len(writes) = 2 /\ writes[1] # writes[2]
    /\ \A i \in DOMAIN writes : <<CANDIDATE_ARTICLES_S3_BUCKET, writes[i]>> \in DOMAIN pre
    /\ s3 = pre

\* a successful call that replaced the stored embedding of an article by another
C10_WitnessReplaced ==
    /\ op = "store_embeddings" /\ exc = NoException
    /\ Len(writes) = 1
    /\ <<CANDIDATE_ARTICLES_S3_BUCKET, writes[1]>> \in DOMAIN pre
    /\ pre[<<CANDIDATE_ARTICLES_S3_BUCKET, writes[1]>>].body
          # s3[<<CANDIDATE_ARTICLES_S3_BUCKET, writes[1]>>].body

----------------------------------------------------------------------------
(* Properties of load_articles *)

\* the call got past the checks of its parameters
LoadArticlesRan ==
    /\ op = "load_articles"
    /\ args.result_ref_type = "s3" /\ args.s3_client /\ args.publishing_date.ok

\* the article a stored body is the serialization of
ArticleOfBody(body) == CHOOSE a \in RawArticles : ArticleJsonTable[a] = body

RECURSIVE KeepJson(_)
KeepJson(keys) ==
    IF Len(keys) = 0 THEN <<>>
    ELSE (IF EndsWith(Head(keys), ".json") THEN <<Head(keys)>> ELSE <<>>)
             \o KeepJson(Tail(keys))

\* the articles listed for the call's publishing date, in ascending key
\* order: (article, metadata, tags) of every .json object under
\* raw_candidate_articles/{topic_id}/{YYYY/MM/DD}
Listed ==
    LET prefix == "raw_candidate_articles/" \o args.topic_id \o "/"
                      \o ZeroPad(ToStr(args.publishing_date.year), 4) \o "/"
                      \o ZeroPad(ToStr(args.publishing_date.month), 2) \o "/"
                      \o ZeroPad(ToStr(args.publishing_date.day), 2)
        keys == KeepJson(KeysWithPrefix(pre, CANDIDATE_ARTICLES_S3_BUCKET, prefix))
    IN  [i \in DOMAIN keys |->
            LET object == pre[<<CANDIDATE_ARTICLES_S3_BUCKET, keys[i]>>]
            IN  <<ArticleOfBody(object.body), object.metadata, object.tags>>]

DistinctUrls(entries) ==
    \A i, j \in DOMAIN entries : entries[i][1].url = entries[j][1].url => i = j

\* the call names a tag key and a tag value
FilterGiven == args.tag_filter_key # "" /\ args.tag_filter_value # ""

\* the entry's tag K equals V
TagMatches(entry) ==
    /\ args.tag_filter_key \in DOMAIN entry[3]
    /\ entry[3][args.tag_filter_key] = args.tag_filter_value

RECURSIVE KeepMatching(_)
KeepMatching(entries) ==
    IF Len(entries) = 0 THEN <<>>
    ELSE (IF TagMatches(Head(entries)) THEN <<Head(entries)>> ELSE <<>>)
             \o KeepMatching(Tail(entries))

\* C11: load_articles with a non-empty tag filter (K, V) over listed articles
\* with pairwise distinct urls returns exactly those articles whose tag K
\* equals V, in listing order; with no filter it returns every listed article.
C11_TagFilterSelects ==
    (LoadArticlesRan /\ DistinctUrls(Listed))
        => /\ exc = NoException
           /\ FilterGiven => ret = KeepMatching(Listed)
           /\ (args.tag_filter_key = "" /\ args.tag_filter_value = "") => ret = Listed

\* what the code does when a listed article has no tag K: the call raises
\* KeyError and returns nothing
C11_MissingTagKeyRaises ==
    /\ LoadArticlesRan /\ FilterGiven
    /\ Len(Listed) >= 1
    /\ \E i \in DOMAIN Listed : args.tag_filter_key \notin DOMAIN Listed[i][3]
    /\ exc = KeyError

\* where every listed article carries the tag K the filter selects as stated
TagFilterSelectsWhereTagged ==
    (/\ LoadArticlesRan /\ DistinctUrls(Listed)
     /\ FilterGiven => \A i \in DOMAIN Listed : args.tag_filter_key \in DOMAIN Listed[i][3])
        => /\ exc = NoException
           /\ FilterGiven => ret = KeepMatching(Listed)
           /\ ~ FilterGiven => ret = Listed

\* a filtered load of two listed articles, one sourced and one not
TagFilterSelectsWitness ==
    /\ LoadArticlesRan /\ FilterGiven /\ exc = NoException
    /\ Len(Listed) = 2 /\ DistinctUrls(Listed)
    /\ Len(ret) = 1 /\ ret[1] = Listed[2]

\* no two returned articles have the same url
NoTwoSameUrl == DistinctUrls(ret)

\* ret is Listed with some entries left out
IsSubsequenceOfListed ==
    \E f \in [DOMAIN ret -> DOMAIN Listed] :
        /\ \A k \in DOMAIN ret : ret[k] = Listed[f[k]]
        /\ \A k, l \in DOMAIN ret : k < l => f[k] < f[l]

Returned(entry) == \E k \in DOMAIN ret : ret[k] = entry

\* the entry passes the tag filter of the call (every entry when none is given)
PassesFilter(entry) == FilterGiven => TagMatches(entry)

\* C12: the result of load_articles never contains two articles with the
\* same url: among listed articles that share a url, only the first in
\* listing order is returned, and the result is a subsequence of the listing.
C12_FirstListedOfUrlOnly ==
    (LoadArticlesRan /\ exc = NoException)
        => /\ NoTwoSameUrl
           /\ IsSubsequenceOfListed
           /\ \A i \in DOMAIN Listed :
                 Returned(Listed[i])
                    => \A j \in 1..(i - 1) : Listed[j][1].url # Listed[i][1].url

\* C12 as the code has it: the url check runs over the articles that passed
\* the tag filter, so among the listed articles that pass the filter and
\* share a url exactly the first in listing order is returned; the result
\* has no two articles of one url and is a subsequence of the listing.
C12_FirstPassingOfUrlOnly ==
    (LoadArticlesRan /\ exc = NoException)
        => /\ NoTwoSameUrl
           /\ IsSubsequenceOfListed
           /\ \A i \in DOMAIN Listed :
                 Returned(Listed[i])
                    <=> /\ PassesFilter(Listed[i])
                        /\ \A j \in 1..(i - 1) :
                              PassesFilter(Listed[j])
                                  => Listed[j][1].url # Listed[i][1].url

\* an unfiltered load of two listed articles of one url returned the first
C12_Witness ==
    /\ LoadArticlesRan /\ ~ FilterGiven /\ exc = NoException
    /\ Len(Listed) = 2
    /\ Listed[1][1].url = Listed[2][1].url
    /\ ret = <<Listed[1]>>

\* a filtered load returned the second of two listed articles of one url,
\* the first having failed the filter
C12_WitnessSecondReturned ==
    /\ LoadArticlesRan /\ FilterGiven /\ exc = NoException
    /\ Len(Listed) = 2
    /\ Listed[1][1].url = Listed[2][1].url
    /\ ret = <<Listed[2]>>

----------------------------------------------------------------------------
(* Properties of update_articles_is_sourced_tag and update_object_tags *)

UpdateTagRan == op = "update_articles_is_sourced_tag"

\* C13: update_articles_is_sourced_tag sets the is_sourced_article tag of
\* each named article to the given value and keeps every other tag of the
\* object with its previous value; body and metadata are not touched.
C13_UpdateKeepsOtherTags ==
    UpdateTagRan
        => /\ exc = NoException => Len(writes) = Len(args.articles)
           /\ \A i \in DOMAIN writes :
                 LET key == DocArticleKey(args.topic_id, args.articles[i])
                 IN  /\ writes[i] = key[2]
                     /\ key \in DOMAIN pre /\ key \in DOMAIN s3
                     /\ DOMAIN s3[key].tags
                           = DOMAIN pre[key].tags \cup {"is_sourced_article"}
                     /\ s3[key].tags["is_sourced_article"] = args.updated_tag_value
                     /\ \A t \in DOMAIN pre[key].tags \ {"is_sourced_article"} :
                           s3[key].tags[t] = pre[key].tags[t]
                     /\ s3[key].body = pre[key].body
                     /\ s3[key].metadata = pre[key].metadata

\* the scenario of the documentation: tags {is_sourced_article: "False",
\* other: "x"} updated with "True" became {is_sourced_article: "True", other: "x"}
C13_Witness ==
    /\ UpdateTagRan /\ exc = NoException
    /\ args.updated_tag_value = "True"
    /\ Len(writes) = 1
    /\ pre[<<CANDIDATE_ARTICLES_S3_BUCKET, writes[1]>>].tags
          = [is_sourced_article |-> "False", other |-> "x"]
    /\ s3[<<CANDIDATE_ARTICLES_S3_BUCKET, writes[1]>>].tags
          = [is_sourced_article |-> "True", other |-> "x"]

IsArticleKey(key) ==
    /\ key[1] = CANDIDATE_ARTICLES_S3_BUCKET
    /\ Len(key[2]) >= Len("raw_candidate_articles/")
    /\ SubSeq(key[2], 1, Len("raw_candidate_articles/")) = "raw_candidate_articles/"

\* C15: after any sequence of store_articles and
\* update_articles_is_sourced_tag calls, successful or failed, every article
\* object under raw_candidate_articles/ carries an is_sourced_article tag
\* whose value is "True" or "False".
C15_IsSourcedTagIsTrueOrFalse ==
    \A key \in DOMAIN s3 :
        IsArticleKey(key)
            => /\ "is_sourced_article" \in DOMAIN s3[key].tags
               /\ s3[key].tags["is_sourced_article"] \in {"True", "False"}

\* after a failed call the store holds a sourced and an unsourced article
C15_Witness ==
    /\ op \in {"store_articles", "update_articles_is_sourced_tag"}
    /\ exc # NoException
    /\ \E k1, k2 \in DOMAIN s3 :
          /\ IsArticleKey(k1) /\ IsArticleKey(k2)
          /\ s3[k1].tags["is_sourced_article"] = "True"
          /\ s3[k2].tags["is_sourced_article"] = "False"

\* the article object at the key came into being in the call just completed
FirstStored(key) == IsArticleKey(key) /\ key \in DOMAIN s3 /\ key \notin DOMAIN pre

\* the article object at the key was there before the call just completed
WasStored(key) == IsArticleKey(key) /\ key \in DOMAIN s3 /\ key \in DOMAIN pre

\* C16: each article follows Discovered -> Stored(unsourced) ->
\* Stored(sourced): it is unsourced immediately after its first store, it
\* becomes sourced only through a tag update, and no repository operation
\* moves a stored article from sourced back to unsourced.
C16_NeverBackToUnsourced ==
    op # "idle"
        => \A key \in DOMAIN s3 :
              /\ FirstStored(key)
                    => /\ op = "store_articles"
                       /\ s3[key].tags["is_sourced_article"] = "False"
              /\ (/\ WasStored(key)
                   /\ pre[key].tags["is_sourced_article"] # "True"
                   /\ s3[key].tags["is_sourced_article"] = "True")
                    => op = "update_articles_is_sourced_tag"
              /\ (WasStored(key) /\ pre[key].tags["is_sourced_article"] = "True")
                    => s3[key].tags["is_sourced_article"] = "True"

\* C16 as the code has it: an article is unsourced immediately after its
\* first store, and the tag of a stored article changes only through
\* update_articles_is_sourced_tag, which sets it to the value it is given:
\* "True" moves the article to sourced and "False" moves it back to unsourced.
C16_TagChangesOnlyThroughUpdate ==
    op # "idle"
        => \A key \in DOMAIN s3 :
              /\ FirstStored(key)
                    => /\ op = "store_articles"
                       /\ s3[key].tags["is_sourced_article"] = "False"
              /\ (WasStored(key) /\ s3[key].tags # pre[key].tags)
                    => /\ op = "update_articles_is_sourced_tag"
                       /\ \E i \in DOMAIN writes : writes[i] = key[2]
              /\ (/\ WasStored(key) /\ op = "update_articles_is_sourced_tag"
                   /\ \E i \in DOMAIN writes : writes[i] = key[2])
                    => s3[key].tags["is_sourced_article"] = args.updated_tag_value

\* a tag update moved a sourced article back to unsourced
C16_Witness ==
    /\ UpdateTagRan /\ exc = NoException
    /\ \E key \in DOMAIN s3 :
          /\ WasStored(key)
          /\ pre[key].tags["is_sourced_article"] = "True"
          /\ s3[key].tags["is_sourced_article"] = "False"

\* a tag update moved an unsourced article to sourced
C16_WitnessSourced ==
    /\ UpdateTagRan /\ exc = NoException
    /\ \E key \in DOMAIN s3 :
          /\ WasStored(key)
          /\ pre[key].tags["is_sourced_article"] = "False"
          /\ s3[key].tags["is_sourced_article"] = "True"

\* C17: in any sequence of store_articles, store_embeddings, load_articles
\* and update_articles_is_sourced_tag calls made one at a time, no call
\* deletes an object, and no call changes the body or the metadata of an
\* article object that exists: they stay those of its first successful write.
C17_FirstWriterWins ==
    op # "idle"
        => \A key \in DOMAIN pre :
              /\ key \in DOMAIN s3
              /\ IsArticleKey(key)
                    => /\ s3[key].body = pre[key].body
                       /\ s3[key].metadata = pre[key].metadata

\* a second store of a key with another body under another run id was
\* refused, on a store where the article had been tagged as sourced and its
\* embedding stored
C17_Witness ==
    /\ op = "store_articles" /\ exc = S3ObjectAlreadyExistsException
    /\ Len(args.articles) >= 1
    /\ LET key == DocArticleKey(args.topic_id, args.articles[1])
       IN  /\ key \in DOMAIN pre
           /\ pre[key].body # ArticleJsonTable[args.articles[1]]
           /\ pre[key].metadata["aggregation_run_id"] # args.aggregation_run_id
           /\ pre[key].tags["is_sourced_article"] = "True"
           /\ DocEmbeddingKey(args.topic_id, ArticleOfBody(pre[key].body)) \in DOMAIN pre
           /\ s3[key] = pre[key]

\* C18: update_object_tags has full-replace semantics: after it succeeds the
\* object's tags are exactly the given tag map (a tag key that was there and
\* is not in the new map is gone), the object's body and metadata are
\* unchanged, and so is every other object.
C18_UpdateObjectTagsReplaces ==
    (op = "update_object_tags" /\ exc = NoException)
        => LET key == <<args.bucket_name, args.object_key>>
           IN  /\ key \in DOMAIN pre
               /\ DOMAIN s3 = DOMAIN pre
               /\ s3[key].tags = args.object_tags_to_update
               /\ s3[key].body = pre[key].body
               /\ s3[key].metadata = pre[key].metadata
               /\ \A other \in DOMAIN pre \ {key} : s3[other] = pre[other]

\* a replacement by a map that lacks a key the object had and brings a new one
C18_Witness ==
    /\ op = "update_object_tags" /\ exc = NoException
    /\ LET key == <<args.bucket_name, args.object_key>>
       IN  /\ \E t \in DOMAIN pre[key].tags : t \notin DOMAIN args.object_tags_to_update
           /\ \E t \in DOMAIN args.object_tags_to_update : t \notin DOMAIN pre[key].tags
           /\ "is_sourced_article" \in DOMAIN pre[key].tags
           /\ "is_sourced_article" \notin DOMAIN s3[key].tags

----------------------------------------------------------------------------
(* Properties of read_objects_from_prefix_with_extension *)

ReadRan == op = "read_objects_from_prefix_with_extension"

\* the key a reader looks for the success marker at
MarkerKeyOf(a) == <<a.bucket_name, a.prefix \o "/" \o a.success_marker_fn>>

\* the keys of the bucket that start with the prefix and end with the extension
MatchingKeys(store, a) ==
    {k[2] : k \in {x \in DOMAIN store :
                      /\ x[1] = a.bucket_name
                      /\ Len(x[2]) >= Len(a.prefix)
                      /\ SubSeq(x[2], 1, Len(a.prefix)) = a.prefix
                      /\ Len(x[2]) >= Len(a.file_extension)
                      /\ SubSeq(x[2], Len(x[2]) - Len(a.file_extension) + 1, Len(x[2]))
                            = a.file_extension}}

ReturnedKeys == {ret[i][1] : i \in DOMAIN ret}

\* C19: read_objects_from_prefix_with_extension with check_success_file = TRUE
\* raises S3SuccessFileDoesNotExistException when no success marker exists at
\* the prefix, and returns no object; with check_success_file = FALSE it
\* returns all matching objects whether or not a marker exists.
C19_SuccessFileCheck ==
    ReadRan
        => /\ (args.check_success_file /\ MarkerKeyOf(args) \notin DOMAIN pre)
                 => /\ exc = S3SuccessFileDoesNotExistException
                    /\ ret = <<>>
                    /\ s3 = pre
           /\ ~ args.check_success_file
                 => /\ exc = NoException
                    /\ ReturnedKeys = MatchingKeys(pre, args)

\* a checked read of a prefix that holds matching objects and no marker
C19_Witness ==
    /\ ReadRan /\ args.check_success_file
    /\ MarkerKeyOf(args) \notin DOMAIN pre
    /\ Cardinality(MatchingKeys(pre, args)) >= 2
    /\ exc = S3SuccessFileDoesNotExistException

\* unchecked reads that returned objects, one with the marker absent and one
\* with it present
C19_WitnessNoMarker ==
    /\ ReadRan /\ ~ args.check_success_file
    /\ MarkerKeyOf(args) \notin DOMAIN pre
    /\ Len(ret) >= 2

C19_WitnessMarker ==
    /\ ReadRan /\ ~ args.check_success_file
    /\ MarkerKeyOf(args) \in DOMAIN pre
    /\ Len(ret) >= 2

\* the key of a success marker: {prefix}/_success or {prefix}/__SUCCESS__
IsMarkerKey(key) ==
    \/ EndsWith(key, "/" \o DefaultSuccessMarkerFn)
    \/ EndsWith(key, "/" \o success_marker_fn)

\* the entries are those of the matching keys, one each, in ascending key
\* order, each with the object's body, metadata and tags
ReturnsMatchingInKeyOrder ==
    /\ ReturnedKeys = MatchingKeys(pre, args)
    /\ Len(ret) = Cardinality(MatchingKeys(pre, args))
    /\ \A i, j \in DOMAIN ret : i < j => KeyLess(ret[i][1], ret[j][1])
    /\ \A i \in DOMAIN ret :
          LET object == pre[<<args.bucket_name, ret[i][1]>>]
          IN  ret[i] = <<ret[i][1], object.body, object.metadata, object.tags>>

\* C20: read_objects_from_prefix_with_extension returns one entry (key, body,
\* metadata, tags) for exactly the objects whose key starts with the prefix
\* and ends with the extension, in ascending key order; objects with another
\* extension, and the success marker itself, are never returned.
C20_MarkerNeverReturned ==
    (ReadRan /\ exc = NoException)
        => /\ ReturnsMatchingInKeyOrder
           /\ \A i \in DOMAIN ret : ~ IsMarkerKey(ret[i][1])

\* C20 as the code has it: the entries are exactly the objects whose key
\* starts with the prefix and ends with the extension, in ascending key
\* order; the success marker is an object like any other, returned exactly
\* when its key ends with the extension (always for the extension "").
C20_ListedBySuffixInKeyOrder ==
    (ReadRan /\ exc = NoException)
        => /\ ReturnsMatchingInKeyOrder
           /\ \A key \in DOMAIN pre :
                 (key[1] = args.bucket_name /\ IsMarkerKey(key[2])
                     /\ StartsWith(key[2], args.prefix))
                    => (key[2] \in ReturnedKeys <=> EndsWith(key[2], args.file_extension))

\* a read over two pages of a prefix that also holds an object of another
\* extension and a marker, neither of which is returned
C20_Witness ==
    /\ ReadRan /\ exc = NoException
    /\ args.file_extension = ".json"
    /\ Len(ret) > PageSize
    /\ <<args.bucket_name, "p/c.txt">> \in DOMAIN pre
    /\ MarkerKeyOf(args) \in DOMAIN pre
    /\ \E i \in DOMAIN ret : pre[<<args.bucket_name, ret[i][1]>>].tags # EmptyDict

\* a read with the extension "" that returned the marker
C20_WitnessMarkerReturned ==
    /\ ReadRan /\ exc = NoException
    /\ \E i \in DOMAIN ret : IsMarkerKey(ret[i][1])

----------------------------------------------------------------------------
(* Properties of the success marker *)

\* the key of the marker of the prefix an article is stored under
MarkerOfArticle(topic_id, article) ==
    <<CANDIDATE_ARTICLES_S3_BUCKET,
      DocArticlePrefix(topic_id, article) \o "/" \o "__SUCCESS__">>

\* the aggregators field after one more aggregator has written to the prefix
Accumulated(store, key, aggregator_id) ==
    IF key \in DOMAIN store /\ "aggregators" \in DOMAIN store[key].metadata
    THEN store[key].metadata["aggregators"] \o "," \o aggregator_id
    ELSE aggregator_id

\* C21: success-marker metadata accumulates across writers: after a
\* successful store_articles of an aggregator's articles the marker
\* {prefix}/__SUCCESS__ of each prefix written exists, and its metadata field
\* aggregators is the field as it was with the aggregator's id appended ("A",
\* then "A,B" after aggregator "B" wrote to the same prefix).
C21_MarkerAccumulates ==
    (op = "store_articles" /\ exc = NoException)
        => \A i \in DOMAIN args.articles :
              LET key == MarkerOfArticle(args.topic_id, args.articles[i])
              IN  (\A j \in DOMAIN args.articles :
                      args.articles[j].aggregator_id = args.articles[i].aggregator_id)
                    => /\ key \in DOMAIN s3
                       /\ "aggregators" \in DOMAIN s3[key].metadata
                       /\ s3[key].metadata["aggregators"]
                             = Accumulated(pre, key, args.articles[i].aggregator_id)

\* C22: get_success_file on a prefix that has no success marker fails with
\* S3SuccessFileDoesNotExistException; on a prefix that has one it returns
\* the marker's body, metadata and tags.
C22_GetSuccessFile ==
    op = "get_success_file"
        => IF MarkerKeyOf(args) \in DOMAIN pre
           THEN /\ exc = NoException
                /\ ret = <<pre[MarkerKeyOf(args)].body, pre[MarkerKeyOf(args)].metadata,
                           pre[MarkerKeyOf(args)].tags>>
           ELSE exc = S3SuccessFileDoesNotExistException

\* what get_success_file does: the store's own error for the missing key
\* reaches the caller, and an existing marker is returned whole
C22_MissingMarkerIsClientError ==
    op = "get_success_file"
        => IF MarkerKeyOf(args) \in DOMAIN pre
           THEN /\ exc = NoException
                /\ ret = <<pre[MarkerKeyOf(args)].body, pre[MarkerKeyOf(args)].metadata,
                           pre[MarkerKeyOf(args)].tags>>
           ELSE exc = ClientError /\ ret = <<>>

\* a marker with metadata was read back
C22_MarkerRead ==
    /\ op = "get_success_file" /\ exc = NoException
    /\ ret[2] = ("aggregators" :> "bing,newsapi")

\* C23: store_success_file never fails with S3ObjectAlreadyExistsException,
\* however many times it is called on the same prefix; after each call
\* success_file_exists_at_prefix returns true for that prefix and the marker's
\* metadata equals exactly the metadata of the latest call, with no tags.
C23_MarkerRewritten ==
    op = "store_success_file"
        => /\ exc = NoException
           /\ success_file_exists_at_prefix(s3, args.bucket_name, args.prefix,
                                            args.success_marker_fn)
           /\ s3[MarkerKeyOf(args)].metadata = args.object_metadata
           /\ s3[MarkerKeyOf(args)].tags = EmptyDict
           /\ s3[MarkerKeyOf(args)].body = dt_to_lexicographic_s3_prefix(args.now)

\* the marker was rewritten without the metadata an earlier call had given it
C23_Witness ==
    /\ op = "store_success_file"
    /\ MarkerKeyOf(args) \in DOMAIN pre
    /\ pre[MarkerKeyOf(args)].metadata = ("aggregators" :> "bing,newsapi")
    /\ args.object_metadata = EmptyDict
    /\ exc = NoException

\* what store_articles does instead: every object in the store is an article
\* object, and no marker is ever written
C21_NoMarkerWritten ==
    \A key \in DOMAIN s3 :
        /\ EndsWith(key[2], candidate_article_s3_extension)
        /\ ~ EndsWith(key[2], success_marker_fn)

\* aggregator "newsapi.org" stored an article under a prefix that held an
\* article of aggregator "bingnews"
C21_SecondWriter ==
    /\ op = "store_articles" /\ exc = NoException
    /\ Len(args.articles) = 1
    /\ args.articles[1].aggregator_id = "newsapi.org"
    /\ \E key \in DOMAIN pre :
          /\ pre[key].metadata["aggregator_id"] = "bingnews"
          /\ StartsWith(key[2], DocArticlePrefix(args.topic_id, args.articles[1]))

----------------------------------------------------------------------------
(* Properties of the checks a call makes before it reaches the store *)

RepositoryCalls ==
    {"load_articles", "store_articles", "store_embeddings", "update_articles_is_sourced_tag"}

\* the call made no request to the store and left it as it was
NoStoreCall == reads = <<>> /\ writes = <<>> /\ s3 = pre

\* C24: for a repository whose backend selector is not the object-store
\* backend, each of load_articles, store_articles, store_embeddings and
\* update_articles_is_sourced_tag raises NotImplementedError and performs no
\* read or write on the object store.
C24_OtherBackendNotImplemented ==
    (op \in RepositoryCalls /\ args.result_ref_type # "s3")
        => exc = NotImplementedError /\ ret = <<>> /\ NoStoreCall

\* a call of the other backend that would have found articles to load
C24_Witness ==
    /\ op = "load_articles" /\ args.result_ref_type # "s3" /\ args.s3_client
    /\ args.publishing_date.ok
    /\ \E key \in DOMAIN s3 :
          StartsWith(key[2], _get_raw_candidates_s3_object_prefix(args.topic_id,
                                 dt_to_lexicographic_date_s3_prefix(args.publishing_date)))
    /\ exc = NotImplementedError

\* the call named was refused while the store held the article it was given
RefusedWithArticleStored(name) ==
    /\ op = name
    /\ args.result_ref_type # "s3" /\ args.s3_client
    /\ DocArticleKey(args.topic_id, args.articles[1]) \in DOMAIN s3
    /\ exc = NotImplementedError

C24_WitnessStoreArticles == RefusedWithArticleStored("store_articles")
C24_WitnessStoreEmbeddings == RefusedWithArticleStored("store_embeddings")
C24_WitnessUpdate == RefusedWithArticleStored("update_articles_is_sourced_tag")

\* a parameter of the call fails its check: no store client, no run id, no
\* publishing date, or a batch item of the wrong class
ParameterRefused ==
    \/ ~ args.s3_client
    \/ op = "store_articles" /\ args.aggregation_run_id = ""
    \/ op = "load_articles" /\ ~ args.publishing_date.ok
    \/ /\ op \in {"store_articles", "store_embeddings", "update_articles_is_sourced_tag"}
       /\ \E i \in DOMAIN args.articles : ~ IsRawArticle(args.articles[i])
    \/ /\ op = "store_embeddings"
       /\ \E i \in DOMAIN args.embeddings : ~ IsRawArticleEmbedding(args.embeddings[i])

\* C25: a parameter-level validation failure (missing store client, missing
\* aggregation_run_id, missing publishing_date, or a batch item that is not a
\* RawArticle / RawArticleEmbedding) makes store_articles, store_embeddings,
\* load_articles and update_articles_is_sourced_tag raise (ValueError on the
\* object-store backend) before any object-store call, so the store is
\* unchanged.
C25_RefusedBeforeAnyStoreCall ==
    (op \in RepositoryCalls /\ ParameterRefused)
        => /\ exc \in {ValueError, NotImplementedError}
           /\ args.result_ref_type = "s3" => exc = ValueError
           /\ NoStoreCall

\* a batch whose first item is a stored article and whose second item is of
\* the wrong class: nothing was asked of the store for the first item either
C25_Witness ==
    /\ op \in {"store_articles", "update_articles_is_sourced_tag"}
    /\ args.result_ref_type = "s3" /\ args.s3_client
    /\ Len(args.articles) = 2
    /\ IsRawArticle(args.articles[1]) /\ ~ IsRawArticle(args.articles[2])
    /\ DocArticleKey(args.topic_id, args.articles[1]) \in DOMAIN s3
    /\ exc = ValueError

\* embeddings of the wrong class, after articles of the right one
C25_WitnessEmbeddings ==
    /\ op = "store_embeddings" /\ args.result_ref_type = "s3" /\ args.s3_client
    /\ \A i \in DOMAIN args.articles : IsRawArticle(args.articles[i])
    /\ \E i \in DOMAIN args.embeddings : ~ IsRawArticleEmbedding(args.embeddings[i])
    /\ exc = ValueError

\* no run id, and no publishing date, with articles in the store
C25_WitnessMissing ==
    /\ s3 # EmptyDict /\ exc = ValueError /\ args.result_ref_type = "s3" /\ args.s3_client
    /\ \/ op = "store_articles" /\ args.aggregation_run_id = ""
       \/ op = "load_articles" /\ ~ args.publishing_date.ok

----------------------------------------------------------------------------
(* Properties of concurrent store_articles calls *)

\* both calls are under way or over
BothBegun == \A w \in Writers : pc[w] # "idle"

\* the articles of both batches, each with the writer and its place
BatchItems == {<<w, i>> : w \in Writers, i \in 1..MaxBatch + 1}

InBatch(x) == x[2] \in DOMAIN wargs[x[1]].articles

ItemArticle(x) == wargs[x[1]].articles[x[2]]

\* every article of the two batches has a key (its dt_published is a date)
\* and no two of them have the same key
DisjointKeys ==
    /\ \A x \in BatchItems :
          InBatch(x) => fromisoformat(ItemArticle(x).dt_published).ok
    /\ \A x, y \in BatchItems :
          (InBatch(x) /\ InBatch(y) /\ x # y)
              => DocArticleKey(TopicId, ItemArticle(x)) # DocArticleKey(TopicId, ItemArticle(y))

\* C26: two concurrent store_articles calls whose article keys are disjoint
\* both succeed under every interleaving of their requests, and the store
\* finally contains every article of both batches, each with its own body,
\* metadata and tags.
C26_DisjointWritersBothSucceed ==
    (BothBegun /\ DisjointKeys)
        => /\ \A w \in Writers : pc[w] # "raised"
           /\ (\A w \in Writers : pc[w] = "done")
                 => \A x \in BatchItems :
                       InBatch(x)
                         => /\ DocArticleKey(TopicId, ItemArticle(x)) \in DOMAIN s3
                            /\ s3[DocArticleKey(TopicId, ItemArticle(x))]
                                  = DocArticleObject(wargs[x[1]].aggregation_run_id,
                                                     ItemArticle(x))

\* both calls are over, their puts interleaved, and an article of each batch
\* lies under the same date prefix
C26_Witness ==
    /\ \A w \in Writers : pc[w] = "done"
    /\ DisjointKeys
    /\ putlog = <<2, 1, 2>>
    /\ \E i \in DOMAIN wargs[1].articles, j \in DOMAIN wargs[2].articles :
          DocArticlePrefix(TopicId, wargs[1].articles[i])
              = DocArticlePrefix(TopicId, wargs[2].articles[j])

\* with a key in common one of the calls can be refused
C26_WitnessCommonKey ==
    /\ BothBegun /\ ~ DisjointKeys
    /\ \E w \in Writers : pc[w] = "raised"
    /\ Len(putlog) > 0

----------------------------------------------------------------------------
(* Properties of the RawArticle class *)

\* C27: serializing a RawArticle to its storage body (json()) and parsing
\* that body back (parse_raw) yields a record equal to the original in every
\* field, including optional fields left at their defaults.
C27_JsonRoundTrip ==
    (op = "parse_raw" /\ instance # NoArticle)
        => /\ exc = NoException
           /\ ret = instance

\* an article with a quote in its title and in its processed data, a number
\* of two digits, and optional fields at their defaults came back
C27_Witness ==
    /\ op = "parse_raw" /\ instance # NoArticle
    /\ instance.title = "say \"hi\"" /\ instance.article_processed_data = "\"text\""
    /\ instance.aggregation_index = 12
    /\ instance.author = "" /\ instance.category = NO_CATEGORY_STR
    /\ ret.title = instance.title /\ ret.author = ""

\* a backslash came back
C27_WitnessBackslash ==
    /\ op = "parse_raw" /\ instance # NoArticle
    /\ ret.title = "a\\b"

\* parse_raw fills the defaults of the fields a body leaves out, and refuses
\* a body without a required field
C27_ForeignBodies ==
    (op = "parse_raw" /\ instance = NoArticle)
        => IF args.body = RequiredOnlyBody THEN exc = NoException /\ ret = Art1
           ELSE exc = ValidationError

----------------------------------------------------------------------------
(* Properties of the enrichment of a RawArticle *)

EnrichCalls == {"process_article_data", "get_article_text", "get_article_text_description"}

\* the call under way fetched the url
Fetched == op \in EnrichCalls /\ args.fetched # NotFetched

\* the fetch gave a page with a main text
FetchedMainText == Fetched /\ args.fetched # NoArticle /\ args.fetched.maintext # ""

\* the fetch gave no page or a page without main text
FetchedNothing == Fetched /\ (args.fetched = NoArticle \/ args.fetched.maintext = "")

Kept(field) == instance[field] = args.self[field]

\* C28: across any sequence of process_article_data, get_article_text and
\* get_article_text_description calls on one article, article_processed_data
\* and article_full_text are each populated at most once: once either field
\* is non-empty, no later call changes its value.
C28_PopulatedAtMostOnce ==
    op \in EnrichCalls
        => /\ args.self.article_processed_data # "" => Kept("article_processed_data")
           /\ args.self.article_full_text # "" => Kept("article_full_text")

\* what the calls do keep: the processed data once set, the full text once
\* the processed data is set, and the full text under get_article_text
C28_KeptOnceProcessed ==
    op \in EnrichCalls
        => /\ args.self.article_processed_data # ""
                => Kept("article_processed_data") /\ Kept("article_full_text")
           /\ (op = "get_article_text" /\ args.self.article_full_text # "")
                => Kept("article_full_text")

\* a call replaced a full text the article had
C28_FullTextReplaced ==
    /\ op \in EnrichCalls
    /\ args.self.article_full_text = "old text"
    /\ instance.article_full_text = "main text"

\* json.dumps of the fetched article's serializable dict without its maintext
ProcessedRecord(article) ==
    "{\"description\": " \o JsonString(article.description)
        \o ", \"title\": " \o JsonString(article.title) \o "}"

\* C29: after a successful enrichment (the fetch returned a non-empty main
\* text), article_full_text holds the main text and article_processed_data
\* holds the serialized processed-data record of the fetched article with the
\* main text field excluded.
C29_ProcessedDataWithoutMainText ==
    FetchedMainText
        => /\ instance.article_full_text = args.fetched.maintext
           /\ instance.article_processed_data = ProcessedRecord(args.fetched)

\* what the processed data holds after a successful enrichment: the main
\* text alone, as a JSON string
C29_ProcessedDataIsMainText ==
    FetchedMainText
        => /\ instance.article_full_text = args.fetched.maintext
           /\ instance.article_processed_data = JsonString(args.fetched.maintext)

C29_Enriched ==
    /\ FetchedMainText
    /\ instance.article_processed_data = "\"main text\""

\* C30: when the fetch of an article's url yields no article or an empty main
\* text, process_article_data returns without raising and leaves
\* article_full_text, article_text_description and article_processed_data
\* unchanged, while provider_domain is still derived from the url if it was
\* empty and is never changed if it was already set.
C30_NothingFetched ==
    (op = "process_article_data" /\ FetchedNothing)
        => /\ exc = NoException
           /\ Kept("article_full_text")
           /\ Kept("article_text_description")
           /\ Kept("article_processed_data")
           /\ instance.provider_domain =
                 IF args.self.provider_domain = "" THEN ProviderDomain(args.self.url)
                 ELSE args.self.provider_domain

\* no page was found for the url of the repository's test, and the domain
\* was derived
C30_Witness ==
    /\ op = "process_article_data" /\ FetchedNothing
    /\ args.fetched = NoArticle
    /\ args.self.url = "https://www.inc.com/sania-khan/invalid-article.html"
    /\ args.self.provider_domain = "" /\ instance.provider_domain = "inc.com"
    /\ instance.article_processed_data = ""

\* a page without main text, and a provider domain that was set stayed
C30_WitnessDomainKept ==
    /\ op = "process_article_data" /\ FetchedNothing
    /\ args.fetched # NoArticle
    /\ args.self.provider_domain = "preset.org" /\ instance.provider_domain = "preset.org"
    /\ instance.article_full_text = "old text"

\* the domains derived from the other urls
C30_WitnessSuffix ==
    /\ op = "process_article_data" /\ FetchedNothing
    /\ args.self.url = "https://News.BBC.co.uk/story"
    /\ instance.provider_domain = "news.bbc.co.uk"

C30_WitnessUpperCase ==
    /\ op = "process_article_data" /\ FetchedNothing
    /\ args.self.url = "http://WWW.Example.org"
    /\ instance.provider_domain = "example.org"

C30_WitnessNoHost ==
    /\ op = "process_article_data" /\ FetchedNothing
    /\ args.self.url = "url"
    /\ instance.provider_domain = "url"

\* C31: get_article_text invokes the enrichment (process_article_data) if
\* and only if article_full_text is empty, and get_article_text_description
\* invokes it if and only if article_text_description is empty; when the
\* field is already set the getter returns it with no fetch.
C31_GettersInvokeWhenEmpty ==
    /\ op = "get_article_text"
         => /\ args.invoked <=> args.self.article_full_text = ""
            /\ args.self.article_full_text # ""
                 => ret = args.self.article_full_text /\ ~ Fetched /\ instance = args.self
    /\ op = "get_article_text_description"
         => /\ args.invoked <=> args.self.article_text_description = ""
            /\ args.self.article_text_description # ""
                 => ret = args.self.article_text_description /\ ~ Fetched /\ instance = args.self

\* get_article_text found a full text on an article without processed data
\* and returned it
C31_Witness ==
    /\ op = "get_article_text"
    /\ args.self.article_full_text = "old text" /\ args.self.article_processed_data = ""
    /\ ~ args.invoked /\ ret = "old text"

\* get_article_text_description found no description and fetched one
C31_WitnessDescriptionFetched ==
    /\ op = "get_article_text_description"
    /\ args.self.article_text_description = ""
    /\ args.invoked /\ Fetched /\ ret = "page description"

\* the enrichment was invoked and returned at its own guard, without a fetch
C31_WitnessInvokedNoFetch ==
    /\ op = "get_article_text"
    /\ args.invoked /\ ~ Fetched /\ ret = ""

----------------------------------------------------------------------------
(* Properties of the date utilities *)

StandardizeRan == op = "standardize_published_date"

\* C32: standardize_published_date either returns an ISO-8601 UTC string
\* with second precision that RawArticle's dt_published pattern accepts
\* (fractional seconds of the input dropped), or raises
\* PublishedDateInvalidFormat; for every input, including one that matches
\* the expected regex but is not a real date, no other exception escapes.
C32_StandardOrInvalidFormat ==
    StandardizeRan
        => \/ exc = NoException /\ MatchesDatePublishedRegex(ret)
           \/ exc = PublishedDateInvalidFormat

\* what holds of every call: no other exception escapes, and a string with a
\* time of day comes back in the form the dt_published pattern accepts
C32_NoOtherException ==
    StandardizeRan
        => /\ exc \in {NoException, PublishedDateInvalidFormat}
           /\ (exc = NoException /\ args.expected_dt_regex # DateOnlyRegex)
                => MatchesDatePublishedRegex(ret)

\* a date without a time of day came back without the offset
C32_DateOnlyReturned ==
    /\ StandardizeRan
    /\ args.dt_str = "2021-04-11" /\ args.expected_dt_regex = DateOnlyRegex
    /\ exc = NoException /\ ret = "2021-04-11T00:00:00"

\* the date of the repository's test, and a string the pattern accepts that
\* is no calendar date
C32_TestDate ==
    /\ StandardizeRan
    /\ args.dt_str = "2021-04-11T21:02:39.0004166Z"
    /\ args.expected_dt_regex = BING_NEWS_PUBLISHED_DATE_REGEX
    /\ ret = "2021-04-11T21:02:39+00:00"

C32_NoCalendarDate ==
    /\ StandardizeRan
    /\ args.dt_str = "2021-02-30T21:02:39.0004166Z"
    /\ args.expected_dt_regex = BING_NEWS_PUBLISHED_DATE_REGEX
    /\ exc = PublishedDateInvalidFormat

----------------------------------------------------------------------------
(* Properties of load_articles: the order of the tag filter and the url check *)

\* C33: load_articles applies the tag filter before the url dedup: when the
\* first listed article of a url fails the tag filter and a later listed
\* article with the same url passes it, the later article is returned (an
\* article dropped by the tag filter never shadows another article with the
\* same url).
C33_FilteredNeverShadows ==
    (LoadArticlesRan /\ exc = NoException /\ FilterGiven)
        => \A i \in DOMAIN Listed :
              (/\ TagMatches(Listed[i])
               /\ \A j \in 1..(i - 1) :
                     Listed[j][1].url = Listed[i][1].url => ~ TagMatches(Listed[j]))
                  => Returned(Listed[i])

\* the first listed article of a url failed the filter and the second, of
\* the same url, was returned
C33_Witness ==
    /\ LoadArticlesRan /\ exc = NoException /\ FilterGiven
    /\ Len(Listed) = 2
    /\ Listed[1][1].url = Listed[2][1].url
    /\ ~ TagMatches(Listed[1]) /\ TagMatches(Listed[2])
    /\ ret = <<Listed[2]>>

\* some listed article has no tag under the key of the filter
SomeListedWithoutTagKey ==
    \E i \in DOMAIN Listed : args.tag_filter_key \notin DOMAIN Listed[i][3]

\* C34: when load_articles is given a tag filter (K, V) and some listed
\* article has no tag with key K, that article is dropped from the result and
\* the call still returns the other articles whose tag K equals V; the call
\* does not fail.
C34_UntaggedArticleDropped ==
    (LoadArticlesRan /\ FilterGiven /\ SomeListedWithoutTagKey)
        => /\ exc = NoException
           /\ \A i \in DOMAIN Listed :
                 args.tag_filter_key \notin DOMAIN Listed[i][3] => ~ Returned(Listed[i])
           /\ DistinctUrls(Listed) => ret = KeepMatching(Listed)

\* what the call does then: KeyError, and nothing returned
C34_UntaggedArticleRaises ==
    (LoadArticlesRan /\ FilterGiven /\ SomeListedWithoutTagKey)
        => exc = KeyError /\ ret = <<>>

C34_Raised ==
    /\ LoadArticlesRan /\ FilterGiven /\ SomeListedWithoutTagKey
    /\ Len(Listed) = 2 /\ exc = KeyError

----------------------------------------------------------------------------
(* Properties of the repository's list of loaded articles *)

\* C35: after every load_articles call the repository's cached
\* candidate_articles equals the result of that call and holds nothing from
\* an earlier load: a successful load replaces the cache with the returned
\* sequence, and a load that fails (unsupported backend, missing parameter,
\* store error) leaves the cache empty.
C35_CacheIsResult ==
    op = "load_articles"
        => /\ exc = NoException => instance.candidate_articles = ret
           /\ exc # NoException => instance.candidate_articles = <<>>

\* what holds of the list after a call: it is the result of a load that
\* returns, it is empty after a load that its checks refuse, and it is the
\* articles appended so far, all of this call's listing, when the loop raises
C35_CacheOfThisCall ==
    op = "load_articles"
        => /\ exc = NoException => instance.candidate_articles = ret
           /\ exc \in {NotImplementedError, ValueError} => instance.candidate_articles = <<>>
           /\ \A k \in DOMAIN instance.candidate_articles :
                 \E i \in DOMAIN Listed : instance.candidate_articles[k] = Listed[i]

\* a load that raised left an article in the list
C35_PartialCache ==
    /\ op = "load_articles" /\ exc = KeyError
    /\ Len(instance.candidate_articles) = 1

\* a load that returned nothing replaced a list that held an article
C35_Replaced ==
    /\ op = "load_articles" /\ exc = NoException
    /\ Len(args.held) >= 1 /\ ret = <<>> /\ instance.candidate_articles = <<>>

\* a load without a client emptied a list that held an article
C35_EmptiedByRefusal ==
    /\ op = "load_articles" /\ exc = ValueError
    /\ Len(args.held) >= 1 /\ instance.candidate_articles = <<>>

----------------------------------------------------------------------------
(* Properties of the marker's name *)

\* a read that requires the marker and names none
ReadRequiringMarker ==
    /\ op = "read_objects_from_prefix_with_extension"
    /\ "success_marker_fn" \notin DOMAIN args
    /\ args.check_success_file

MarkerHeld(name) == <<args.bucket_name, args.prefix \o "/" \o name>> \in DOMAIN pre

\* C36: a reader that requires completeness checks the same marker key that
\* writers write: after store_success_file writes the marker at
\* {prefix}/__SUCCESS__, read_objects_from_prefix_with_extension called on
\* that prefix with check_success_file=true and no explicit marker name does
\* not raise S3SuccessFileDoesNotExistException.
C36_ReaderFindsWrittenMarker ==
    (ReadRequiringMarker /\ MarkerHeld("__SUCCESS__"))
        => exc # S3SuccessFileDoesNotExistException

\* the key such a reader checks is {prefix}/_success
C36_ReaderChecksDefaultName ==
    ReadRequiringMarker
        => (exc = S3SuccessFileDoesNotExistException <=> ~ MarkerHeld("_success"))

\* the marker was at {prefix}/__SUCCESS__ and the reader raised
C36_MarkerNotFound ==
    /\ ReadRequiringMarker /\ MarkerHeld("__SUCCESS__")
    /\ exc = S3SuccessFileDoesNotExistException

----------------------------------------------------------------------------
(* Properties of a store followed by a load *)

\* store_articles calls that pass the checks, with pairwise distinct urls
DistinctUrlStores ==
    {a \in StoreArticlesInputs :
        /\ a.result_ref_type = ResultRefTypes_S3 /\ a.s3_client /\ a.aggregation_run_id # ""
        /\ \A i, j \in DOMAIN a.articles : a.articles[i].url = a.articles[j].url => i = j}

\* what each of them does on an empty store
StoredAlone ==
    [a \in DistinctUrlStores |->
        store_articles(EmptyDict, a.result_ref_type, a.topic_id, a.s3_client,
                       a.aggregation_run_id, a.articles)]

\* the call succeeds on an empty store and leaves the store the load found
LoadFollows(a) == StoredAlone[a].exc = NoException /\ StoredAlone[a].s3 = pre

\* the article was published on the date the load asks for
PublishedOn(article, d) ==
    DocDatePath(article.dt_published)
        = ZeroPad(ToStr(d.year), 4) \o "/" \o ZeroPad(ToStr(d.month), 2)
              \o "/" \o ZeroPad(ToStr(d.day), 2)

\* the triple a load is to return for an article of the batch
LoadedEntry(a, article) ==
    <<article,
      [aggregation_run_id |-> a.aggregation_run_id, aggregator_id |-> article.aggregator_id],
      [is_sourced_article |-> "False"]>>

\* ret holds the batch's articles of the date, each once, by ascending key
ReturnsBatchOfDate(a) ==
    /\ exc = NoException
    /\ \A k \in DOMAIN ret :
          \E i \in DOMAIN a.articles :
              /\ PublishedOn(a.articles[i], args.publishing_date)
              /\ ret[k] = LoadedEntry(a, a.articles[i])
    /\ \A i \in DOMAIN a.articles :
          PublishedOn(a.articles[i], args.publishing_date)
              => \E k \in DOMAIN ret : ret[k][1] = a.articles[i]
    /\ \A k, l \in DOMAIN ret :
          k < l => KeyLess(DocArticleKey(args.topic_id, ret[k][1])[2],
                           DocArticleKey(args.topic_id, ret[l][1])[2])

\* C37: store-then-load round trip: on an initially empty store, after
\* store_articles succeeds for a batch with pairwise distinct urls,
\* load_articles for publishing date d returns exactly the batch's articles
\* whose dt_published falls on d, in ascending key order, each with metadata
\* {aggregation_run_id, aggregator_id} and tags {is_sourced_article: "False"},
\* and no article of another date.
C37_StoreThenLoad ==
    (LoadArticlesRan /\ ~ FilterGiven)
        => \A a \in DistinctUrlStores : LoadFollows(a) => ReturnsBatchOfDate(a)

\* a batch of two articles of one day, given in descending key order, came
\* back in ascending key order
C37_Witness ==
    /\ LoadArticlesRan /\ ~ FilterGiven
    /\ \E a \in DistinctUrlStores :
          /\ a.articles = <<Art3, Art2>> /\ LoadFollows(a)
          /\ ret = <<LoadedEntry(a, Art2), LoadedEntry(a, Art3)>>

\* of a batch with articles of two days the load returned the one of its date
C37_WitnessOtherDate ==
    /\ LoadArticlesRan /\ ~ FilterGiven
    /\ \E a \in DistinctUrlStores :
          /\ a.articles = <<Art3, Art4>> /\ LoadFollows(a)
          /\ ret = <<LoadedEntry(a, Art3)>>

----------------------------------------------------------------------------
(* Properties of the topic in the key *)

\* the keys of the article objects in the store
StoredArticleKeys ==
    {k \in DOMAIN s3 : k[1] = CANDIDATE_ARTICLES_S3_BUCKET
                          /\ StartsWith(k[2], "raw_candidate_articles/")}

\* the T of raw_candidate_articles/{T}/...
TopicOfKey(key) == Split(key, "/")[2]

\* C38: every article object that store_articles writes under
\* raw_candidate_articles/{T}/ has a body whose topic_id field equals T: an
\* article is never stored under the prefix of a topic other than its own
\* topic_id.
C38_StoredUnderOwnTopic ==
    \A k \in StoredArticleKeys :
        ParseRawTable[s3[k].body].value.topic_id = TopicOfKey(k[2])

\* the T of the key is the topic of the repository that wrote the object
C38_StoredUnderRepositoryTopic ==
    \A k \in StoredArticleKeys : TopicOfKey(k[2]) = TopicId

\* an article of topic t2 is stored under the prefix of topic t1
C38_UnderOtherTopic ==
    \E k \in StoredArticleKeys :
        /\ TopicOfKey(k[2]) = "t1"
        /\ ParseRawTable[s3[k].body].value.topic_id = "t2"

----------------------------------------------------------------------------
(* Properties of the key of a constructed article *)

\* a call on constructed articles whose other parameters pass their checks
OnConstructedArticles ==
    /\ op \in {"store_articles", "update_articles_is_sourced_tag"}
    /\ args.result_ref_type = "s3"
    /\ ~ ParameterRefused
    /\ \A i \in DOMAIN args.articles :
          MatchesDatePublishedRegex(args.articles[i].dt_published)
    /\ op = "update_articles_is_sourced_tag"
          => args.updated_tag_value \in {"True", "False"}

\* C39: every RawArticle whose dt_published was accepted at construction has
\* a computable storage key, so store_articles and
\* update_articles_is_sourced_tag never fail on a constructed article's date,
\* and never after earlier articles of the batch were written.
C39_ConstructedArticleHasKey ==
    OnConstructedArticles => exc # ValueError

\* the first article whose date is no calendar date, if there is one
FirstNonDate(k) ==
    /\ k \in DOMAIN args.articles
    /\ ~ DateTable[args.articles[k]].ok
    /\ \A j \in 1..(k - 1) : DateTable[args.articles[j]].ok

\* what the code does: the call raises ValueError exactly at an article
\* whose accepted dt_published is no calendar date, after a write for each
\* article before it
C39_FailsAtNonDate ==
    (OnConstructedArticles /\ exc = ValueError)
        => \E k \in DOMAIN args.articles :
              /\ FirstNonDate(k)
              /\ writes = [j \in 1..(k - 1) |->
                              DocArticleKey(args.topic_id, args.articles[j])[2]]

\* store_articles stored the first article and then failed on the date of
\* the second, which construction had accepted
C39_FailedAfterWrite ==
    /\ OnConstructedArticles /\ op = "store_articles"
    /\ exc = ValueError
    /\ FirstNonDate(2)
    /\ args.articles[2].dt_published = "2023-02-30T12:00:00+00:00"
    /\ DocArticleKey(args.topic_id, args.articles[1]) \in DOMAIN s3 \ DOMAIN pre

----------------------------------------------------------------------------
(* Properties of the marker's timestamp string *)

Formatted == op = "dt_to_lexicographic_s3_prefix"

\* the prefix parsed is the one dt_to_lexicographic_s3_prefix gave for args.dt
ParsedBack == op = "lexicographic_s3_prefix_to_dt" /\ "dt" \in DOMAIN args

\* C40: dt_to_lexicographic_s3_prefix is order-preserving and invertible: for
\* datetimes d1 < d2 the string for d1 is lexicographically smaller than the
\* string for d2, and
\* lexicographic_s3_prefix_to_dt(dt_to_lexicographic_s3_prefix(d)) equals d.
C40_OrderPreservingAndInvertible ==
    /\ (Formatted /\ datetime_lt(args.dt, args.other)) => KeyLess(ret.prefix, ret.other)
    /\ ParsedBack => exc = NoException /\ datetime_eq(ret, args.dt)

\* what the code does: the string orders datetimes by their own fields, and
\* the inverse gives those fields back as a naive datetime
C40_FieldsKept ==
    /\ Formatted =>
          (KeyLess(ret.prefix, ret.other)
              <=> datetime_lt([args.dt EXCEPT !.tzinfo = NaiveTz],
                              [args.other EXCEPT !.tzinfo = NaiveTz]))
    /\ ParsedBack => exc = NoException /\ ret = [args.dt EXCEPT !.tzinfo = NaiveTz]

\* the datetime of a marker, datetime.now(timezone.utc), does not come back
C40_UtcNotReturned ==
    /\ ParsedBack
    /\ args.dt = Datetime(2023, 4, 11, 21, 2, 39, 4166, Tz(0))
    /\ args.prefix = "2023/04/11/21/02/39/004166"
    /\ ret = Datetime(2023, 4, 11, 21, 2, 39, 4166, NaiveTz)
    /\ ~ datetime_eq(ret, args.dt)

\* 02:00 five hours east of UTC is before 00:00 UTC, its string is after
C40_OrderReversed ==
    /\ Formatted
    /\ args.dt = Datetime(2023, 1, 1, 2, 0, 0, 0, Tz(5))
    /\ args.other = Datetime(2023, 1, 1, 0, 0, 0, 0, Tz(0))
    /\ datetime_lt(args.dt, args.other)
    /\ KeyLess(ret.other, ret.prefix)

\* a naive datetime comes back, and naive datetimes in order have strings in
\* order
C40_NaiveReturned ==
    /\ ParsedBack /\ ~ args.dt.tzinfo.aware /\ args.dt.microsecond = 4166
    /\ datetime_eq(ret, args.dt)

C40_NaiveInOrder ==
    /\ Formatted /\ ~ args.dt.tzinfo.aware
    /\ args.dt.year = 2022 /\ args.other.year = 2023
    /\ datetime_lt(args.dt, args.other) /\ KeyLess(ret.prefix, ret.other)

\* a prefix written by hand with digits left out is read too
C40_ShortPrefixRead ==
    /\ op = "lexicographic_s3_prefix_to_dt" /\ args.prefix = "2023/4/11/21/2/39/4166"
    /\ ret = Datetime(2023, 4, 11, 21, 2, 39, 416600, NaiveTz)

====
